---- MODULE Spec2Model ----
(***************************************************************************)
(* Ereuna: the multi-provider LLM orchestration layer.                     *)
(*                                                                         *)
(*   LLMClientManager   (src/utils/llm_client_manager.py)  client registry *)
(*   PromptManager      (src/utils/prompt_manager.py)      template store  *)
(*   ResearchGenerator  (src/utils/research_generator.py)  report engine   *)
(*   ChatManager        (src/utils/chat_manager.py)        chat engine     *)
(*                                                                         *)
(* Texts are TLA+ strings; prefix, substring, lower-casing and blank tests *)
(* are computed character by character, as the Python code computes them.  *)
(* The provider SDKs are the environment: each provider call is answered    *)
(* by a reply (a text or a raised exception) drawn from a small set.        *)
(***************************************************************************)
EXTENDS Integers, Sequences, FiniteSets, TLC

----------------------------------------------------------------------------
(* Bounds of the model *)

MaxRetriesBound == 3
MaxFaults == 2
MaxTurns == 2
MaxLookups == 3
MaxFormats == 2
MaxConcurrentCalls == 2

----------------------------------------------------------------------------
(* Python string operations *)

\* str.startswith
StartsWith(s, p) == Len(s) >= Len(p) /\ SubSeq(s, 1, Len(p)) = p

\* the `in` operator on two strings
Contains(s, p) == \E i \in 1..(Len(s) - Len(p) + 1) : SubSeq(s, i, i + Len(p) - 1) = p

UpperAlphabet == "ABCDEFGHIJKLMNOPQRSTUVWXYZ"
LowerAlphabet == "abcdefghijklmnopqrstuvwxyz"

\* the lower-case letter of each upper-case letter
LowerMap ==
    [c \in {SubSeq(UpperAlphabet, i, i) : i \in 1..26} |->
        LET i == CHOOSE j \in 1..26 : SubSeq(UpperAlphabet, j, j) = c
        IN  SubSeq(LowerAlphabet, i, i)]

LowerChar(c) == IF c \in DOMAIN LowerMap THEN LowerMap[c] ELSE c

\* str.lower (the string is lowered by halves to keep the recursion shallow)
RECURSIVE Lower(_)
Lower(s) ==
    IF Len(s) = 0 THEN ""
    ELSE IF Len(s) = 1 THEN LowerChar(s)
    ELSE LET h == Len(s) \div 2
         IN  Lower(SubSeq(s, 1, h)) \o Lower(SubSeq(s, h + 1, Len(s)))

Whitespace == {" ", "\n", "\t", "\r"}

\* IsBlank that takes only the empty string for blank
IsBlank_empty_only(s) == s = ""

\* `not s or not s.strip()`
IsBlank(s) == \A i \in 1..Len(s) : SubSeq(s, i, i) \in Whitespace

\* index of the first occurrence of the character c in s (0 when absent)
IndexOf(s, c) ==
    IF \E j \in 1..Len(s) : SubSeq(s, j, j) = c
    THEN CHOOSE j \in 1..Len(s) :
           /\ SubSeq(s, j, j) = c
           /\ \A i \in 1..(j - 1) : SubSeq(s, i, i) # c
    ELSE 0

\* model_name.split('-')[0]
SplitFirst(s) ==
    IF IndexOf(s, "-") = 0 THEN s ELSE SubSeq(s, 1, IndexOf(s, "-") - 1)

----------------------------------------------------------------------------
(* The environment: model identifiers, credentials, provider replies *)

ModelNames == {"gemini-2.5-flash", "gpt-4o", "claude-3-opus-20240229", "llama-3"}

\* the families ConfigManager loads a credential for
KeyFamilies == {"gemini", "gpt", "claude"}

\* exception classes named by the except clauses of the retry loops
\* (openai/anthropic APITimeoutError is itself a subclass of APIError)
TimeoutTypes == {"APITimeoutError", "BlockedPromptException"}
APIErrorTypes == {"APIError", "APITimeoutError"}

TextReply(t) == [kind |-> "text", text |-> t, etype |-> "", msg |-> ""]
RaiseReply(ty, m) == [kind |-> "raise", text |-> "", etype |-> ty, msg |-> m]

\* exception a provider call may raise
Timeout == RaiseReply("APITimeoutError", "Request timed out.")
RateLimit == RaiseReply("APIError", "429 Rate limit reached")
BadKey == RaiseReply("APIError", "Incorrect API key provided")
Forbidden == RaiseReply("APIError", "403 Forbidden")
ServerError == RaiseReply("APIError", "Internal server error")
ConnectionReset == RaiseReply("ConnectionError", "Connection reset by peer")
\* an SDK error whose message names both the rate limit and the key, and an
\* authorization failure raised with a class outside the SDK's APIError
ThrottledKey == RaiseReply("APIError", "Rate limit reached for this API key")
Unauthenticated == RaiseReply("PermissionDenied", "403 API key not valid: permission denied")

SectionTexts == {"Generated text.", "", "  "}
ChatTexts ==
    { "YES", "NO", "Soil erosion lowers crop yields.",
      "I don't have enough information in the research to answer.", "" }

\* the texts the provider may answer to a call of engine e during operation o
\* (a report run draws from fewer replies than a single invoke)
ReplyTexts(o, e) ==
    IF o = "report" THEN {"Generated text.", ""}
    ELSE IF o \in {"tables", "executive"} THEN {"Yields fell by 12% on eroded plots.", ""}
    ELSE IF e = "RG" THEN SectionTexts
    ELSE ChatTexts

\* the exceptions the provider may raise during operation o
Failures(o) ==
    IF o = "invoke"
    THEN {Timeout, RateLimit, BadKey, Forbidden, ServerError, ConnectionReset,
          ThrottledKey, Unauthenticated}
    ELSE {RateLimit, BadKey, ConnectionReset}

\* the credential sets of report and chat runs
KeySets == {{}, {"gemini"}, KeyFamilies}

NoValue == "<none>"

----------------------------------------------------------------------------
VARIABLES
    model_name,     \* self.model_name
    api_keys,       \* LLMClientManager.api_keys: families with a non-empty key
    max_retries,    \* self.max_retries
    clients,        \* LLMClientManager.clients: families with a cached handle
    op,             \* the public operation in progress
    engine,         \* "RG" (ResearchGenerator) or "CM" (ChatManager)
    pc,             \* position of the retry engine
    label,          \* section_name / call_type of the current invoke
    attempt,        \* loop variable of the retry loop
    replies,        \* replies of the provider calls of the current invoke
    carried,        \* messages handed to the provider in the latest call of the invoke
    waits,          \* arguments of time.sleep in the current invoke
    ret,            \* value returned by the last invoke
    exit,           \* which return statement of the retry loop was taken
    raised,         \* an exception left the retry engine
    faults,         \* environment faults injected so far in this run
    templates,      \* PromptManager.templates: template name -> template
    deep_research_enabled,  \* ResearchGenerator.deep_research_enabled
    prompt,         \* the prompt of the current invoke
    started,        \* labels of the logical calls started in this run or turn
    call_log,       \* labels of the provider calls made in this run or turn
    sections,       \* generate_report: the mapping built so far
    sec,            \* generate_report: index of the section statement reached
    report,         \* generate_report: the mapping returned
    chat_history,   \* ChatManager.chat_history
    user_query,     \* generate_chat_response: its argument
    stage,          \* generate_chat_response: the invoke it is waiting for
    relevance_response,     \* generate_chat_response: local relevance_response
    chat_ret,       \* generate_chat_response: the value returned
    turns,          \* chat turns started so far
    requested,      \* get_client: the model names it was called with, in order
    handle,         \* get_client: outcome of the last call
    constructed,    \* get_client: families whose handle was constructed, in order
    arg_section_data,   \* generate_section: its argument section_data
    section_data_after, \* generate_section: the caller's descriptor after the call
    arg_previous,   \* generate_section: its argument previous_sections_content
    section_out,    \* generate_section: the value returned or exception raised
    format_log,     \* format_prompt: the calls made, each with its outcome
    slept,          \* number of time.sleep calls made since generate_report was called
    threads,        \* concurrent get_client calls: position and locals of each
    stored,         \* LLMClientManager.clients: family -> identity of its handle
    summary_call,   \* the summary method called and its content argument
    tables,         \* generate_table_summary: the tables found in the content
    table_summaries,    \* generate_table_summary: local table_summaries
    summary_out     \* the value a summary method returned or the exception it raised

config == <<model_name, api_keys, max_retries, templates, deep_research_enabled>>

engineVars == <<engine, pc, label, attempt, replies, carried, waits, ret, exit, raised, prompt>>

reportVars == <<sections, sec, report>>

chatVars == <<chat_history, user_query, stage, relevance_response, chat_ret, turns>>

registryVars == <<requested, handle, constructed>>

sectionVars == <<arg_section_data, section_data_after, arg_previous, section_out>>

promptVars == <<format_log>>

summaryVars == <<summary_call, tables, table_summaries, summary_out>>

concurrentVars == <<threads, stored>>

vars == <<model_name, api_keys, max_retries, templates, deep_research_enabled,
          clients, op, engine, pc, label, attempt, replies, carried, waits, ret, exit,
          raised, prompt, faults, started, call_log, sections, sec, report,
          chat_history, user_query, stage, relevance_response, chat_ret, turns,
          requested, handle, constructed,
          arg_section_data, section_data_after, arg_previous, section_out,
          format_log, slept, threads, stored,
          summary_call, tables, table_summaries, summary_out>>

----------------------------------------------------------------------------
(* LLMClientManager *)

\* _initialize_api_client that remembers a family without a key in the cache
_initialize_api_client_negative_entry(cache, model_prefix, built) ==
    IF model_prefix \notin api_keys THEN cache \cup {model_prefix}
    ELSE IF ~built THEN cache
    ELSE IF model_prefix \in {"gemini", "gpt", "claude"} THEN cache \cup {model_prefix}
    ELSE cache

\* _initialize_api_client: the cache after initialisation of model_prefix,
\* where built tells whether the SDK constructor returned without raising
_initialize_api_client(cache, model_prefix, built) ==
    IF model_prefix \notin api_keys THEN cache
    ELSE IF ~built THEN cache
    ELSE IF model_prefix \in {"gemini", "gpt", "claude"} THEN cache \cup {model_prefix}
    ELSE cache

\* get_client: the cache after the call; the handle returned is
\* `model_prefix \in` that cache (None otherwise)
get_client(cache, name, built) ==
    LET model_prefix == SplitFirst(name)
    IN  IF model_prefix \notin cache
        THEN _initialize_api_client(cache, model_prefix, built)
        ELSE cache

\* Constructs that does not look in the cache first
Constructs_uncached(cache, name) == SplitFirst(name) \in api_keys

\* whether get_client runs an SDK constructor (which the environment may fail)
Constructs(cache, name) ==
    LET model_prefix == SplitFirst(name)
    IN  model_prefix \notin cache /\ model_prefix \in api_keys

\* the requests that call get_client concurrently
Threads == {1, 2}

\* a request that is not inside get_client
Idle == [pc |-> "idle", name |-> "", mine |-> 0, result |-> 0, calls |-> 0,
         construction |-> "none"]

\* the families _initialize_api_client has a branch for
SupportedFamilies == {"gemini", "gpt", "claude"}

\* the value of `self.clients.get(model_prefix)` for an absent key
NoHandle == 0

\* model names handed to get_client: several per family, some of no family
RegistryNames ==
    ModelNames \cup {"gemini-1.5-flash", "gpt-3.5-turbo", "claude", "mistral-7b", ""}

\* InitOutcome without the except clause around the constructors
InitOutcome_without_except(model_prefix, built) ==
    IF model_prefix \notin api_keys THEN "no_key"
    ELSE IF model_prefix \notin SupportedFamilies THEN "unsupported"
    ELSE IF ~built THEN "propagated"
    ELSE "stored"

\* the path _initialize_api_client takes: early return without a key, the
\* else branch of the dispatch, the except clause, or a stored handle
InitOutcome(model_prefix, built) ==
    IF model_prefix \notin api_keys THEN "no_key"
    ELSE IF model_prefix \notin SupportedFamilies THEN "unsupported"
    ELSE IF ~built THEN "caught"
    ELSE "stored"

\* position of the last element of seq equal to x (0 when absent)
LastIndex(seq, x) ==
    IF \E i \in 1..Len(seq) : seq[i] = x
    THEN CHOOSE i \in 1..Len(seq) :
             seq[i] = x /\ \A j \in (i + 1)..Len(seq) : seq[j] # x
    ELSE 0

\* what a get_client call did: the value returned (a handle of a family,
\* identified by the construction that made it, or None) or an exception,
\* and what the SDK constructor did in the call
Outcome(kind, family, serial, construction) ==
    [kind |-> kind, family |-> family, serial |-> serial, construction |-> construction]

\* get_client(name) called on the registry
GetClient ==
    /\ op = "none"
    /\ Len(requested) < MaxLookups
    /\ \E name \in RegistryNames : \E built \in BOOLEAN :
         LET model_prefix == SplitFirst(name)
             runs == Constructs(clients, name) /\ model_prefix \in SupportedFamilies
             path == IF model_prefix \in clients THEN "cached"
                     ELSE InitOutcome(model_prefix, built)
             cache == IF path = "propagated" THEN clients
                      ELSE get_client(clients, name, built)
             log == IF runs /\ built THEN Append(constructed, model_prefix)
                    ELSE constructed
             did == IF ~runs THEN "none" ELSE IF built THEN "returned" ELSE "raised"
         IN  /\ ~runs => built
             /\ requested' = Append(requested, name)
             /\ clients' = cache
             /\ constructed' = log
             /\ handle' =
                  IF path = "propagated" THEN Outcome("raise", "", 0, did)
                  ELSE IF model_prefix \in cache
                  THEN Outcome("handle", model_prefix, LastIndex(log, model_prefix), did)
                  ELSE Outcome("none", "", 0, did)
    /\ UNCHANGED <<config, summaryVars, promptVars, concurrentVars, slept, sectionVars, op, engineVars, faults, started, call_log,
                   reportVars, chatVars>>

----------------------------------------------------------------------------
(* PromptManager *)

Template_research_section ==
    "Create a {section_name} for a research report on the topic: "
    \o "{topic}. Keywords: {keywords}. Research questions: {research_questions}. "
    \o "Ensure the content is approximately {word_count} words. {deep_research_instruction}"

Template_executive_summary ==
    "Provide a {summary_detail_instruction} executive summary (around "
    \o "{summary_word_count} words) of the following research report. "
    \o "Focus on the main findings, key arguments, and conclusions. "
    \o "Ensure the summary is clear, objective, and highlights the most "
    \o "important aspects. {deep_research_instruction}\n\nResearch Report:\n{full_report_content}"

Template_chat_response ==
    "Based on the following research content, answer the user's question.\nIf "
    \o "the answer is not directly available in the provided content, "
    \o "state that you don't have enough information in the research "
    \o "to answer, but then attempt to answer using your broader knowledge.\nIf "
    \o "you use external knowledge, clearly state that the information "
    \o "is not from the provided research.\n \n--- Research Content ---\n{research_content}\n--- "
    \o "End Research Content ---\n \nUser's Question: {user_query}\n \nPlease "
    \o "provide a clear, concise answer. Prioritize information from "
    \o "the research content. If you use external knowledge, clearly "
    \o "state that it is not from the provided research."

Template_relevance_check ==
    "Given the research topic: '{research_topic}', determine if the "
    \o "following user query is relevant. Respond with 'YES' if relevant, "
    \o "and 'NO' if not relevant. Do not provide any other text.\n\nUser "
    \o "Query: {user_query}"

Template_web_search_response ==
    "Based on the following web search results and your broader knowledge, "
    \o "answer the user's question.\nClearly state that this information "
    \o "is from external sources and not the original research report.\n "
    \o "\n--- Web Search Results ---\n{scraped_content}\n--- End Web Search "
    \o "Results ---\n \nUser's Question: {user_query}\n \nPlease provide "
    \o "a clear, concise answer, explicitly mentioning that this information "
    \o "is from external sources."

Template_table_summary ==
    "Please summarize the following table data concisely.\n       "
    \o "     Table Content:\n            {table_content}\n\n           "
    \o " Provide a summary that highlights the key information and trends "
    \o "in the table."

\* the templates _create_default_templates writes and loads
DefaultTemplates ==
    [ research_section |-> Template_research_section,
      executive_summary |-> Template_executive_summary,
      chat_response |-> Template_chat_response,
      relevance_check |-> Template_relevance_check,
      web_search_response |-> Template_web_search_response,
      table_summary |-> Template_table_summary ]

\* a research_section template file that references a placeholder the
\* generator does not supply
Template_research_section_custom ==
    "Create a {section_name} on {topic} for {audience}. Keywords: {keywords}."

\* the stores _load_templates can produce: the defaults, a directory whose
\* research_section.json and relevance_check.json are absent or hold an empty
\* prompt, and a directory with a customised research_section.json
TemplateStores ==
    { DefaultTemplates,
      [ executive_summary |-> Template_executive_summary,
        chat_response |-> Template_chat_response,
        web_search_response |-> Template_web_search_response,
        table_summary |-> Template_table_summary ],
      [ DefaultTemplates EXCEPT !.research_section = Template_research_section_custom ] }

\* get_template that falls back to the research_section template
get_template_with_fallback(template_name) ==
    IF template_name \in DOMAIN templates THEN templates[template_name]
    ELSE Template_research_section

\* get_template: the template, or "" for None (both are falsy)
get_template(template_name) ==
    IF template_name \in DOMAIN templates THEN templates[template_name] ELSE ""

\* Format that fills a field kwargs does not supply with the empty string
RECURSIVE Format_lenient(_, _)
Format_lenient(t, kwargs) ==
    LET open == IndexOf(t, "{")
        close == IndexOf(t, "}")
    IN  IF open = 0 \/ close < open THEN [ok |-> TRUE, text |-> t, key |-> ""]
        ELSE LET key == SubSeq(t, open + 1, close - 1)
                 rest == Format_lenient(SubSeq(t, close + 1, Len(t)), kwargs)
             IN  [ok |-> TRUE, key |-> "",
                  text |-> SubSeq(t, 1, open - 1)
                           \o (IF key \in DOMAIN kwargs THEN kwargs[key] ELSE "")
                           \o rest.text]

\* str.format(**kwargs): fields are replaced left to right; the first field
\* that kwargs does not supply raises KeyError(key)
RECURSIVE Format(_, _)
Format(t, kwargs) ==
    LET open == IndexOf(t, "{")
        close == IndexOf(t, "}")
    IN  IF open = 0 \/ close < open THEN [ok |-> TRUE, text |-> t, key |-> ""]
        ELSE LET key == SubSeq(t, open + 1, close - 1)
             IN  IF key \notin DOMAIN kwargs
                 THEN [ok |-> FALSE, text |-> "", key |-> key]
                 ELSE LET rest == Format(SubSeq(t, close + 1, Len(t)), kwargs)
                      IN  IF rest.ok
                          THEN [ok |-> TRUE, key |-> "",
                                text |-> SubSeq(t, 1, open - 1) \o kwargs[key] \o rest.text]
                          ELSE rest

\* format_prompt whose text depends on the calls made before
format_prompt_numbered(template_name, kwargs) ==
    LET template == IF template_name \in DOMAIN templates
                    THEN templates[template_name] ELSE ""
    IN  IF template = ""
        THEN [ok |-> FALSE, text |-> "",
              error |-> "Prompt template '" \o template_name \o "' not found."]
        ELSE [ok |-> TRUE, text |-> template \o ToString(Len(format_log)), error |-> ""]

\* format_prompt: the formatted text, or the ValueError it raises
format_prompt(template_name, kwargs) ==
    LET template == get_template(template_name)
    IN  IF template = ""
        THEN [ok |-> FALSE, text |-> "",
              error |-> "Prompt template '" \o template_name \o "' not found."]
        ELSE LET f == Format(template, kwargs)
             IN  IF f.ok THEN [ok |-> TRUE, text |-> f.text, error |-> ""]
                 ELSE [ok |-> FALSE, text |-> "",
                       error |-> "Missing data for prompt placeholder: '" \o f.key
                                 \o "'. Check template '" \o template_name \o "'."]

\* the replacement fields of a template, left to right
RECURSIVE Fields(_)
Fields(t) ==
    LET open == IndexOf(t, "{")
        close == IndexOf(t, "}")
    IN  IF open = 0 \/ close < open THEN {}
        ELSE {SubSeq(t, open + 1, close - 1)} \cup Fields(SubSeq(t, close + 1, Len(t)))

\* keyword arguments that cover every field of every template of the store
AllKwargs ==
    [ section_name |-> "Introduction", topic |-> "Impact of AI on Education",
      keywords |-> "AI, Learning", research_questions |-> "How does AI change learning?",
      word_count |-> "200", deep_research_instruction |-> "",
      previous_sections_content |-> "", summary_detail_instruction |-> "concise",
      summary_word_count |-> "150", full_report_content |-> "Generated text.",
      research_content |-> "Soil erosion reduces crop yields.",
      user_query |-> "What is erosion?", research_topic |-> "Effects of soil erosion",
      scraped_content |-> "Source: A", table_content |-> "a | b",
      audience |-> "teachers" ]

\* AllKwargs without one key (all of them when omitted is no key)
Supplied(omitted) == [k \in DOMAIN AllKwargs \ {omitted} |-> AllKwargs[k]]

\* template names handed to format_prompt: the default names and two unknown
FormatNames == DOMAIN DefaultTemplates \cup {"literature_review", ""}

\* format_prompt(name, **kwargs) called on the prompt manager
FormatPrompt ==
    /\ op = "none"
    /\ Len(format_log) < MaxFormats
    /\ \E name \in FormatNames :
         \E omitted \in Fields(get_template(name)) \cup {NoValue} :
            format_log' = Append(format_log,
                [name |-> name, omitted |-> omitted,
                 out |-> format_prompt(name, Supplied(omitted))])
    /\ UNCHANGED <<config, summaryVars, concurrentVars, slept, registryVars, sectionVars, clients, op,
                   engineVars, faults, started, call_log, reportVars, chatVars>>

----------------------------------------------------------------------------
(* The retrying invocation engine:                                         *)
(* ResearchGenerator._make_api_call_with_retry and                         *)
(* ChatManager._make_llm_call_with_retry                                   *)

\* Dispatch without the `and client` tests
Dispatch_ignoring_client(model_prefix, client) ==
    IF model_prefix \in {"gemini", "gpt", "claude"} THEN model_prefix ELSE "else"

\* the branch of the if/elif chain that dispatches on the provider family
Dispatch(model_prefix, client) ==
    IF model_prefix = "gemini" /\ client THEN "gemini"
    ELSE IF model_prefix = "gpt" /\ client THEN "gpt"
    ELSE IF model_prefix = "claude" /\ client THEN "claude"
    ELSE "else"

\* the else branch of the dispatch: the string returned without a provider call
NoClientError(e) ==
    IF e = "RG"
    THEN "Error: Unsupported model '" \o model_name \o "' or API client not initialized."
    ELSE "Error: Model '" \o model_name
         \o "' is not supported or API client not initialized. Please check your API keys."

\* self.system_prompt of the generator and of the chat manager
system_prompt(e) ==
    IF e = "RG"
    THEN "You are a helpful research assistant. Provide detailed and "
         \o "well-structured information."
    ELSE "You are a helpful research assistant. Your primary goal is to answer "
         \o "questions ONLY based on the provided research content. If a question "
         \o "cannot be answered using the given content, or if the question is not "
         \o "related to the research topic, you MUST state that you cannot answer "
         \o "questions outside the scope of the research topic. DO NOT use your "
         \o "broader knowledge to answer questions that are outside the research "
         \o "topic. If you use external knowledge, clearly state that the "
         \o "information is not from the provided research."

Message(role, content) == [role |-> role, content |-> content]

\* the history as the gemini branch sends it: "assistant" becomes "model"
GeminiTurns(history) ==
    [i \in 1..Len(history) |->
        Message(IF history[i].role = "user" THEN "user" ELSE "model",
                history[i].content)]

\* the history as the gpt and claude branches send it
PlainTurns(history) ==
    [i \in 1..Len(history) |-> Message(history[i].role, history[i].content)]

\* Messages of a chat engine that sends the prompt without the history
Messages_without_history(e, branch, history, p) ==
    IF branch = "gpt"
    THEN <<Message("system", system_prompt(e)), Message("user", p)>>
    ELSE <<Message("user", p)>>

\* the messages a branch of the dispatch hands to the SDK call: the report
\* engine sends the prompt (after the system prompt for gpt), the chat engine
\* puts the turns of chat_history before it
Messages(e, branch, history, p) ==
    IF e = "RG"
    THEN IF branch = "gpt"
         THEN <<Message("system", system_prompt(e)), Message("user", p)>>
         ELSE <<Message("user", p)>>
    ELSE IF branch = "gemini"
    THEN GeminiTurns(history) \o <<Message("user", p)>>
    ELSE IF branch = "gpt"
    THEN <<Message("system", system_prompt(e))>> \o PlainTurns(history)
         \o <<Message("user", p)>>
    ELSE PlainTurns(history) \o <<Message("user", p)>>

\* Extract whose chat engine awaits the SDK call and reads choices[0]
Extract_chat_awaited(e, branch, text) ==
    IF branch = "gemini" \/ e = "CM" THEN TextReply(text)
    ELSE IF branch = "gpt"
    THEN RaiseReply("AttributeError", "'coroutine' object has no attribute 'choices'")
    ELSE RaiseReply("AttributeError", "'coroutine' object has no attribute 'content'")

\* The statement that reads the text out of what the SDK call returned.
\* gemini: response.text.  gpt and claude: the registry builds AsyncOpenAI /
\* AsyncAnthropic, whose create() returns a coroutine that is never awaited,
\* and the report engine reads .choices.message / .content.text off a list:
\* the attribute access raises AttributeError inside the try block.
Extract(e, branch, text) ==
    IF branch = "gemini" THEN TextReply(text)
    ELSE IF branch = "gpt"
    THEN RaiseReply("AttributeError", "'coroutine' object has no attribute 'choices'")
    ELSE RaiseReply("AttributeError", "'coroutine' object has no attribute 'content'")

\* TryBlock without the empty-response check
TryBlock_unvalidated(e, branch, l, reply) ==
    IF reply.kind = "raise" THEN reply
    ELSE Extract(e, branch, reply.text)

\* what the try block ends with for a provider reply: the text returned to
\* the caller (kind "text") or the exception raised inside the block
TryBlock(e, branch, l, reply) ==
    IF reply.kind = "raise" THEN reply
    ELSE LET x == Extract(e, branch, reply.text)
         IN  IF x.kind = "raise" THEN x
             ELSE IF IsBlank(x.text)
             THEN RaiseReply("ValueError", "Empty response received for " \o l)
             ELSE x

\* CatchClause without the final `except Exception`
CatchClause_without_generic(etype) ==
    IF etype \in TimeoutTypes THEN "timeout"
    ELSE IF etype \in APIErrorTypes THEN "api"
    ELSE "none"

\* the except clause that catches an exception of the given class
CatchClause(etype) ==
    IF etype \in TimeoutTypes THEN "timeout"
    ELSE IF etype \in APIErrorTypes THEN "api"
    ELSE "generic"

\* the classification of a caught exception
Classify(etype, msg) ==
    LET clause == CatchClause(etype)
        error_msg == Lower(msg)
    IN  IF clause = "timeout" THEN "timeout"
        ELSE IF clause = "api"
        THEN IF Contains(error_msg, "quota") \/ Contains(error_msg, "rate")
             THEN "rate_limit"
             ELSE IF Contains(error_msg, "api key") \/ Contains(error_msg, "authentication")
             THEN "auth"
             ELSE IF Contains(error_msg, "permission") \/ Contains(error_msg, "forbidden")
             THEN "permission"
             ELSE "api_other"
        ELSE IF clause = "generic" THEN "unexpected"
        ELSE "uncaught"

\* Retryable when the authorization branches also back off and retry
Retryable_with_authorization ==
    {"timeout", "rate_limit", "api_other", "unexpected", "auth", "permission"}

\* the classes whose handler sleeps and continues while attempts remain
Retryable == {"timeout", "rate_limit", "api_other", "unexpected"}

\* wait_time that does not double for rate limits
wait_time_flat(class, k) == 2 ^ k

\* wait_time of a retryable failure at the given attempt index
wait_time(class, k) ==
    IF class = "rate_limit" THEN (2 ^ k) * 2 ELSE 2 ^ k

\* MayRetry giving up one attempt early
MayRetry_one_short(k) == k < max_retries - 2

\* `attempt < self.max_retries - 1`
MayRetry(k) == k < max_retries - 1

\* ErrorString whose generic handler returns the bare exception text
ErrorString_bare_exception(class, l, etype, msg) ==
    CASE class = "timeout" ->
           "Error: Request timeout for " \o l \o " with " \o model_name
           \o ". Please check your connection and try again."
      [] class = "rate_limit" ->
           "Error: API rate limit exceeded for " \o l \o " with " \o model_name
           \o ". Please try again later."
      [] class = "auth" ->
           "Error: Invalid API key for " \o model_name
           \o ". Please check your configuration."
      [] class = "permission" ->
           "Error: Permission denied for " \o model_name
           \o ". Please check your API key permissions."
      [] class = "api_other" ->
           "Error generating " \o l \o " with " \o model_name \o ": " \o msg
      [] OTHER -> etype \o " - " \o msg

\* the error string a handler returns
ErrorString(class, l, etype, msg) ==
    CASE class = "timeout" ->
           "Error: Request timeout for " \o l \o " with " \o model_name
           \o ". Please check your connection and try again."
      [] class = "rate_limit" ->
           "Error: API rate limit exceeded for " \o l \o " with " \o model_name
           \o ". Please try again later."
      [] class = "auth" ->
           "Error: Invalid API key for " \o model_name
           \o ". Please check your configuration."
      [] class = "permission" ->
           "Error: Permission denied for " \o model_name
           \o ". Please check your API key permissions."
      [] class = "api_other" ->
           "Error generating " \o l \o " with " \o model_name \o ": " \o msg
      [] OTHER ->
           "Error generating " \o l \o " with " \o model_name \o ": "
           \o etype \o " - " \o msg

\* the string returned after the loop
ExhaustedError(l) ==
    "Error: Failed to generate " \o l \o " with " \o model_name \o " after "
    \o ToString(max_retries) \o " attempts. Please try again later."

\* a loop counter that goes on from where the previous call stopped
range_start_carried(previous) == previous

\* the first value of `attempt` in `for attempt in range(self.max_retries)`
range_start(previous) == 0

\* entry of the retry method: `for attempt in range(self.max_retries)`
EnterInvoke(e, l, p) ==
    /\ engine' = e
    /\ label' = l
    /\ prompt' = p
    /\ raised' = FALSE
    /\ pc' = "loop"
    /\ attempt' = range_start(attempt)
    /\ replies' = <<>>
    /\ carried' = <<>>
    /\ waits' = <<>>
    /\ ret' = NoValue
    /\ exit' = "none"

\* a return statement of the retry method
Return(value, site) ==
    /\ ret' = value
    /\ exit' = site
    /\ pc' = "returned"
    /\ UNCHANGED <<attempt, waits, raised>>

\* an exception leaves the retry method
Propagate(etype, msg) ==
    /\ raised' = TRUE
    /\ pc' = "raised"
    /\ exit' = etype
    /\ ret' = msg
    /\ UNCHANGED <<attempt, waits>>

\* the except clauses, for an exception raised inside the try block
Handle(etype, msg) ==
    LET class == Classify(etype, msg)
    IN  IF class = "uncaught"
        THEN Propagate(etype, msg)
        ELSE IF class \in Retryable /\ MayRetry(attempt)
        THEN /\ waits' = Append(waits, wait_time(class, attempt))
             /\ attempt' = attempt + 1
             /\ UNCHANGED <<pc, ret, exit, raised>>
        ELSE Return(ErrorString(class, label, etype, msg), class)

\* the end of the try block for a provider reply
Settle(branch, reply) ==
    LET x == TryBlock(engine, branch, label, reply)
    IN  IF x.kind = "text"
        THEN Return(x.text, "success")
        ELSE Handle(x.etype, x.msg)

\* what a run of the retry loop comes to
Ended(n, w, site, value) == [calls |-> n, waits |-> w, exit |-> site, text |-> value]

\* The retry loop of engine e as a function of what the provider answers:
\* from attempt k, with w the waits made so far, client telling whether
\* get_client returns a handle and outcomes the provider's replies in order.
\* The result is the number of provider calls, the waits, the return
\* statement taken and, on success, the text ("pending" when the replies run
\* out before the loop ends).
RECURSIVE RunLoop(_, _, _, _, _, _)
RunLoop(e, l, client, outcomes, k, w) ==
    LET branch == Dispatch(SplitFirst(model_name), client)
    IN  IF k >= max_retries THEN Ended(k, w, "exhausted", "")
        ELSE IF branch = "else" THEN Ended(k, w, "no_client", "")
        ELSE IF k + 1 > Len(outcomes) THEN Ended(k, w, "pending", "")
        ELSE LET x == TryBlock(e, branch, l, outcomes[k + 1])
                 class == Classify(x.etype, x.msg)
             IN  IF x.kind = "text" THEN Ended(k + 1, w, "success", x.text)
                 ELSE IF class = "uncaught" THEN Ended(k + 1, w, x.etype, "")
                 ELSE IF class \in Retryable /\ MayRetry(k)
                 THEN RunLoop(e, l, client, outcomes, k + 1,
                              Append(w, wait_time(class, k)))
                 ELSE Ended(k + 1, w, class, "")

\* a fault the environment may still inject (bounds report and chat runs)
FaultAllowed == op = "invoke" \/ faults < MaxFaults

InLoop == pc = "loop" /\ attempt < max_retries

\* an iteration that takes the else branch: no client for the model
NoClient ==
    /\ InLoop
    /\ \E built \in BOOLEAN :
         LET fault == Constructs(clients, model_name) /\ ~built
             cache == get_client(clients, model_name, built)
         IN  /\ Constructs(clients, model_name) \/ built
             /\ fault => FaultAllowed
             /\ Dispatch(SplitFirst(model_name), SplitFirst(model_name) \in cache) = "else"
             /\ clients' = cache
             /\ faults' = IF fault THEN faults + 1 ELSE faults
    /\ Return(NoClientError(engine), "no_client")
    /\ UNCHANGED <<config, summaryVars, promptVars, concurrentVars, slept, registryVars, sectionVars, op, engine, label, prompt, replies, carried, started, call_log,
                   reportVars, chatVars>>

\* an iteration whose provider call returns a response
CallReturns ==
    /\ InLoop
    /\ LET cache == get_client(clients, model_name, TRUE)
           branch == Dispatch(SplitFirst(model_name), SplitFirst(model_name) \in cache)
       IN  /\ branch # "else"
           /\ clients' = cache
           /\ carried' = Messages(engine, branch, chat_history, prompt)
           /\ \E t \in ReplyTexts(op, engine) :
                /\ IsBlank(t) => FaultAllowed
                /\ faults' = IF IsBlank(t) THEN faults + 1 ELSE faults
                /\ replies' = Append(replies, TextReply(t))
                /\ Settle(branch, TextReply(t))
    /\ call_log' = Append(call_log, label)
    /\ slept' = IF op = "report" THEN slept + (Len(waits') - Len(waits)) ELSE slept
    /\ UNCHANGED <<config, summaryVars, promptVars, concurrentVars, registryVars, sectionVars, op, engine, label, prompt, started, reportVars, chatVars>>

\* an iteration whose provider call raises
CallRaises ==
    /\ InLoop
    /\ FaultAllowed
    /\ LET cache == get_client(clients, model_name, TRUE)
           branch == Dispatch(SplitFirst(model_name), SplitFirst(model_name) \in cache)
       IN  /\ branch # "else"
           /\ clients' = cache
           /\ carried' = Messages(engine, branch, chat_history, prompt)
           /\ \E f \in Failures(op) :
                /\ replies' = Append(replies, f)
                /\ Settle(branch, f)
    /\ faults' = faults + 1
    /\ call_log' = Append(call_log, label)
    /\ slept' = IF op = "report" THEN slept + (Len(waits') - Len(waits)) ELSE slept
    /\ UNCHANGED <<config, summaryVars, promptVars, concurrentVars, registryVars, sectionVars, op, engine, label, prompt, started, reportVars, chatVars>>

\* the loop ends without a return: the statements after the loop
LoopExhausted ==
    /\ pc = "loop"
    /\ attempt >= max_retries
    /\ Return(ExhaustedError(label), "exhausted")
    /\ UNCHANGED <<config, summaryVars, promptVars, concurrentVars, slept, registryVars, sectionVars, clients, op, engine, label, prompt, replies, carried, faults,
                   started, call_log, reportVars, chatVars>>

Engine == NoClient \/ CallReturns \/ CallRaises \/ LoopExhausted

----------------------------------------------------------------------------
(* A caller that invokes the engine directly *)

Labels(e) == IF e = "RG" THEN {"Introduction"} ELSE {"relevance check"}

InvokeDirect ==
    /\ op = "none"
    /\ op' = "invoke"
    /\ \E e \in {"RG", "CM"} : \E l \in Labels(e) :
         /\ EnterInvoke(e, l, "Write the " \o l \o ".")
         /\ started' = Append(started, l)
    /\ UNCHANGED <<config, summaryVars, promptVars, concurrentVars, slept, registryVars, sectionVars, clients, faults, call_log, reportVars, chatVars>>

\* the state after construction of the generator or chat manager
InitState ==
    /\ model_name \in ModelNames
    /\ max_retries \in 0..MaxRetriesBound
    /\ clients = {}
    /\ op = "none"
    /\ engine = "RG"
    /\ pc = "idle"
    /\ label = ""
    /\ prompt = ""
    /\ attempt = 0
    /\ replies = <<>>
    /\ carried = <<>>
    /\ waits = <<>>
    /\ ret = NoValue
    /\ exit = "none"
    /\ raised = FALSE
    /\ faults = 0
    /\ started = <<>>
    /\ call_log = <<>>
    /\ sections = <<>>
    /\ sec = 0
    /\ report = <<>>
    /\ chat_history = <<>>
    /\ user_query = ""
    /\ stage = "none"
    /\ relevance_response = NoValue
    /\ chat_ret = NoValue
    /\ turns = 0
    /\ requested = <<>>
    /\ handle = Outcome("none", "", 0, "none")
    /\ constructed = <<>>
    /\ arg_section_data = [type |-> "none"]
    /\ section_data_after = [type |-> "none"]
    /\ arg_previous = ""
    /\ section_out = [kind |-> "none", text |-> NoValue]
    /\ summary_call = [method |-> "none", content |-> ""]
    /\ tables = <<>>
    /\ table_summaries = <<>>
    /\ summary_out = [kind |-> "none", text |-> NoValue]
    /\ format_log = <<>>
    /\ slept = 0
    /\ threads = [t \in Threads |-> Idle]
    /\ stored = [family \in SupportedFamilies |-> NoHandle]

Init ==
    /\ InitState
    /\ api_keys \in SUBSET KeyFamilies
    /\ templates = DefaultTemplates
    /\ deep_research_enabled = FALSE

NextEngine == InvokeDirect \/ NoClient \/ CallReturns \/ CallRaises \/ LoopExhausted

SpecEngine == Init /\ [][NextEngine]_vars

----------------------------------------------------------------------------
(* A caller that uses the registry directly *)

InitRegistry ==
    /\ InitState
    /\ model_name = "gemini-2.5-flash"
    /\ max_retries = 3
    /\ api_keys \in SUBSET KeyFamilies
    /\ templates = DefaultTemplates
    /\ deep_research_enabled = FALSE

NextRegistry == GetClient

SpecRegistry == InitRegistry /\ [][NextRegistry]_vars

----------------------------------------------------------------------------
(* Requests that call get_client on one registry at the same time.  A handle
   is identified by the serial number of the construction that made it, its
   position in `constructed`; a thread switch may happen between any two of
   the statements of get_client and _initialize_api_client. *)

\* model names the concurrent requests ask for
ConcurrentNames == {"gpt-4o", "gpt-3.5-turbo", "gemini-2.5-flash", "mistral-7b"}

\* the value a call returns when it raises
Raises == -1

\* `model_prefix in self.clients`
Cached(cache, model_prefix) ==
    model_prefix \in SupportedFamilies /\ cache[model_prefix] # NoHandle

\* `self.clients.get(model_prefix)`
Lookup(cache, model_prefix) ==
    IF Cached(cache, model_prefix) THEN cache[model_prefix] ELSE NoHandle

\* a store that keeps the handle already in the cache
StoreHandle_first_wins(cache, model_prefix, serial) ==
    IF cache[model_prefix] # NoHandle THEN cache
    ELSE [cache EXCEPT ![model_prefix] = serial]

\* `self.clients[model_prefix] = <handle>`
StoreHandle(cache, model_prefix, serial) == [cache EXCEPT ![model_prefix] = serial]

\* a request calls get_client(name): `model_prefix = model_name.split('-')[0]`
CallGetClient ==
    /\ op = "none"
    /\ \E t \in Threads : \E name \in ConcurrentNames :
         /\ threads[t].pc = "idle"
         /\ threads[t].calls < MaxConcurrentCalls
         /\ threads' = [threads EXCEPT ![t] =
                [pc |-> "check", name |-> name, mine |-> 0, result |-> NoHandle,
                 calls |-> @.calls, construction |-> "none"]]
    /\ UNCHANGED <<config, summaryVars, promptVars, stored, slept, registryVars, sectionVars, clients, op,
                   engineVars, faults, started, call_log, reportVars, chatVars>>

\* `if model_prefix not in self.clients:`
CheckCache ==
    /\ \E t \in Threads :
         /\ threads[t].pc = "check"
         /\ threads' = [threads EXCEPT ![t].pc =
                IF Cached(stored, SplitFirst(threads[t].name)) THEN "return" ELSE "init"]
    /\ UNCHANGED <<config, summaryVars, promptVars, stored, slept, registryVars, sectionVars, clients, op,
                   engineVars, faults, started, call_log, reportVars, chatVars>>

\* _initialize_api_client up to the value of the constructor call: it returns
\* early without a key, logs for a family it has no branch for, or calls the
\* SDK constructor, which returns a new handle or raises into the except clause
InitializeClient ==
    /\ \E t \in Threads : \E built \in BOOLEAN :
         LET model_prefix == SplitFirst(threads[t].name)
             path == InitOutcome(model_prefix, built)
         IN  /\ threads[t].pc = "init"
             /\ path \in {"no_key", "unsupported"} => built
             /\ CASE path = "stored" ->
                       /\ constructed' = Append(constructed, model_prefix)
                       /\ threads' = [threads EXCEPT ![t].pc = "store",
                                         ![t].mine = Len(constructed) + 1,
                                         ![t].construction = "returned"]
                  [] path = "caught" ->
                       /\ threads' = [threads EXCEPT ![t].pc = "return",
                                         ![t].construction = "raised"]
                       /\ UNCHANGED constructed
                  [] path = "propagated" ->
                       /\ threads' = [threads EXCEPT ![t].pc = "idle",
                                         ![t].result = Raises,
                                         ![t].calls = @ + 1,
                                         ![t].construction = "raised"]
                       /\ UNCHANGED constructed
                  [] OTHER ->
                       /\ threads' = [threads EXCEPT ![t].pc = "return"]
                       /\ UNCHANGED constructed
    /\ UNCHANGED <<config, summaryVars, promptVars, stored, slept, requested, handle, sectionVars, clients, op,
                   engineVars, faults, started, call_log, reportVars, chatVars>>

\* the assignment `self.clients[...] = ...` of the handle just constructed
StoreClient ==
    /\ \E t \in Threads :
         LET model_prefix == SplitFirst(threads[t].name)
         IN  /\ threads[t].pc = "store"
             /\ stored' = StoreHandle(stored, model_prefix, threads[t].mine)
             /\ clients' = clients \cup {model_prefix}
             /\ threads' = [threads EXCEPT ![t].pc = "return"]
    /\ UNCHANGED <<config, summaryVars, promptVars, slept, registryVars, sectionVars, op,
                   engineVars, faults, started, call_log, reportVars, chatVars>>

\* `return self.clients.get(model_prefix)`
ReturnClient ==
    /\ \E t \in Threads :
         /\ threads[t].pc = "return"
         /\ threads' = [threads EXCEPT ![t].pc = "idle",
                           ![t].result = Lookup(stored, SplitFirst(threads[t].name)),
                           ![t].calls = @ + 1]
    /\ UNCHANGED <<config, summaryVars, promptVars, stored, slept, registryVars, sectionVars, clients, op,
                   engineVars, faults, started, call_log, reportVars, chatVars>>

NextConcurrent ==
    CallGetClient \/ CheckCache \/ InitializeClient \/ StoreClient \/ ReturnClient

SpecConcurrent == InitRegistry /\ [][NextConcurrent]_vars

----------------------------------------------------------------------------
(* A caller that uses the prompt manager directly *)

InitPrompt ==
    /\ InitState
    /\ model_name = "gemini-2.5-flash"
    /\ max_retries = 3
    /\ api_keys = {}
    /\ templates \in TemplateStores
    /\ deep_research_enabled = FALSE

NextPrompt == FormatPrompt

SpecPrompt == InitPrompt /\ [][NextPrompt]_vars

----------------------------------------------------------------------------
(* ResearchGenerator.generate_section and generate_report *)

\* the constructor arguments of the generator
topic == "Impact of AI on Education"
keywords == "AI, Learning"
research_questions == "How does AI change learning?"

DeepDetail ==
    "Provide extensive details, comprehensive analysis, and a professional, in-depth output."

\* a dict descriptor with all three keys
Descriptor(title, p, wc) ==
    [type |-> "dict", keys |-> {"title", "prompt", "word_count"},
     title |-> title, prompt |-> p, word_count |-> wc]

\* the descriptors generate_report passes, in statement order
CanonicalSections ==
    << Descriptor("Introduction", "Provide an introduction to the topic.", 200),
       Descriptor("Literature Review", "Review existing literature on the topic.", 400),
       Descriptor("Methodology", "Describe the research methodology.", 300),
       Descriptor("Results", "Present the results of the research.", 300),
       Descriptor("Discussion", "Discuss the implications of the results.", 300),
       Descriptor("Conclusion", "Conclude the research with key findings.", 200) >>

\* the name an unbound local raises when read
UnboundSectionName ==
    [outcome |-> "raise", name |-> "", etype |-> "UnboundLocalError",
     text |-> "cannot access local variable 'section_name' where it is not associated with a value"]

SectionError(name, msg) ==
    [outcome |-> "return", name |-> name, etype |-> "", text |-> "Error: " \o msg]

\* the caller's descriptor once generate_section has run: with deep research
\* enabled `section_data["prompt"] += " Provide ..."` changes the dict in place
AfterCall(section_data) ==
    IF /\ deep_research_enabled
       /\ section_data.type = "dict"
       /\ "prompt" \in section_data.keys
    THEN [section_data EXCEPT !.prompt = @ \o " " \o DeepDetail]
    ELSE section_data

\* generate_section up to its return statement: the prompt it hands to the
\* retry method (outcome "invoke"), the Error string an except clause returns
\* (outcome "return"), or the exception that leaves it (outcome "raise")
generate_section(section_data, previous_sections_content) ==
    LET isdict == section_data.type = "dict"
        isstr == section_data.type = "str"
        has(k) == isdict /\ k \in section_data.keys
        \* the descriptor's prompt after `section_data["prompt"] += ...`
        stored_prompt ==
            IF has("prompt") THEN AfterCall(section_data).prompt ELSE ""
        section_name ==
            IF isdict
            THEN IF has("title") THEN section_data.title ELSE "Untitled Section"
            ELSE section_data.title
        section_prompt ==
            IF isdict THEN stored_prompt ELSE get_template("research_section")
        \* word_count = section_data.get("word_count") overwrites the deep value
        word_count == IF has("word_count") THEN section_data.word_count ELSE 0
        deep_research_instruction == IF deep_research_enabled THEN DeepDetail ELSE ""
        final_prompt ==
            format_prompt("research_section",
                [section_name |-> section_name,
                 topic |-> topic,
                 keywords |-> keywords,
                 research_questions |-> research_questions,
                 word_count |-> IF word_count # 0 THEN ToString(word_count) ELSE "",
                 deep_research_instruction |-> deep_research_instruction,
                 previous_sections_content |-> previous_sections_content])
    IN  IF deep_research_enabled /\ ~has("prompt") /\ isstr
        THEN UnboundSectionName
        ELSE IF isdict /\ section_prompt = ""
        THEN SectionError(section_name, "Section '" \o section_name
                 \o "' is missing a 'prompt' field in the template.")
        ELSE IF isstr /\ section_prompt = ""
        THEN SectionError(section_name, "Default 'research_section' prompt template not found.")
        ELSE IF ~isdict /\ ~isstr
        THEN SectionError("", "Invalid section_data type. Must be string or dictionary.")
        ELSE IF ~final_prompt.ok
        THEN SectionError(section_name, final_prompt.error)
        ELSE [outcome |-> "invoke", name |-> section_name, etype |-> "",
              text |-> final_prompt.text]

\* what generate_section returns once the retry method has returned (or
\* raised into its except clauses)
SectionResult ==
    IF pc = "raised"
    THEN IF exit = "ValueError" THEN "Error: " \o ret
         ELSE "Error generating " \o label \o ": " \o ret
    ELSE ret

Titles(m) == [i \in 1..Len(m) |-> m[i].title]

\* Store that leaves a failed section out of the mapping
Store_skipping_errors(m, title, text) ==
    IF StartsWith(text, "Error") THEN m
    ELSE Append(m, [title |-> title, text |-> text])

\* sections[title] = text on an insertion-ordered dict
Store(m, title, text) ==
    IF \E i \in 1..Len(m) : m[i].title = title
    THEN [i \in 1..Len(m) |-> IF m[i].title = title
                              THEN [title |-> title, text |-> text] ELSE m[i]]
    ELSE Append(m, [title |-> title, text |-> text])

\* NextStatement that abandons the report after a failed section
NextStatement_stop_on_error(i, text) ==
    IF StartsWith(text, "Error") THEN Len(CanonicalSections) + 1 ELSE i + 1

\* the statement generate_report executes after section statement i
NextStatement(i, text) == i + 1

\* the mapping the except clause of generate_report returns
FailureReport(msg) ==
    << [title |-> "Introduction", text |-> "Error: Failed to generate report - " \o msg],
       [title |-> "Literature Review", text |-> "Error: Report generation failed"],
       [title |-> "Methodology", text |-> "Error: Report generation failed"],
       [title |-> "Results", text |-> "Error: Report generation failed"],
       [title |-> "Discussion", text |-> "Error: Report generation failed"],
       [title |-> "Conclusion", text |-> "Error: Report generation failed"] >>

\* exceptions a statement of generate_report can raise outside generate_section
RunExceptions == { [etype |-> "MemoryError", msg |-> ""] }

\* generate_report is called: `sections = {}`
StartReport ==
    /\ op = "none"
    /\ op' = "report"
    /\ sections' = <<>>
    /\ sec' = 1
    /\ UNCHANGED <<config, summaryVars, promptVars, concurrentVars, slept, registryVars, sectionVars, clients, engineVars, faults, started, call_log, report, chatVars>>

\* the i-th `sections[...] = self.generate_section({...})` statement, up to
\* the return of generate_section or its call of the retry method
SectionCall ==
    /\ op = "report"
    /\ pc = "idle"
    /\ sec \in 1..Len(CanonicalSections)
    /\ LET section_data == CanonicalSections[sec]
           g == generate_section(section_data, "")
       IN  /\ started' = Append(started, section_data.title)
           /\ CASE g.outcome = "invoke" ->
                     /\ EnterInvoke("RG", g.name, g.text)
                     /\ UNCHANGED <<op, reportVars>>
                [] g.outcome = "return" ->
                     /\ sections' = Store(sections, section_data.title, g.text)
                     /\ sec' = NextStatement(sec, g.text)
                     /\ UNCHANGED <<op, engineVars, report>>
                [] OTHER ->
                     /\ report' = FailureReport(g.text)
                     /\ op' = "done"
                     /\ UNCHANGED <<engineVars, sections, sec>>
    /\ UNCHANGED <<config, summaryVars, promptVars, concurrentVars, slept, registryVars, sectionVars, clients, faults, call_log, chatVars>>

\* generate_section returns the result of the retry method, which the
\* statement stores under the section's key
SectionReturn ==
    /\ op = "report"
    /\ pc \in {"returned", "raised"}
    /\ sections' = Store(sections, CanonicalSections[sec].title, SectionResult)
    /\ sec' = NextStatement(sec, SectionResult)
    /\ pc' = "idle"
    /\ UNCHANGED <<config, summaryVars, promptVars, concurrentVars, slept, registryVars, sectionVars, clients, op, engine, label, attempt, replies, carried, waits, ret,
                   exit, raised, prompt, faults, started, call_log, report, chatVars>>

\* the statements after the last section: `return sections`
ReportReturn ==
    /\ op = "report"
    /\ pc = "idle"
    /\ sec > Len(CanonicalSections)
    /\ report' = sections
    /\ op' = "done"
    /\ UNCHANGED <<config, summaryVars, promptVars, concurrentVars, slept, registryVars, sectionVars, clients, engineVars, faults, started, call_log,
                   sections, sec, chatVars>>

\* A statement of generate_report's try block raises (its own statements, not
\* generate_section, which catches what its body raises): with no progress
\* callback installed the except clause logs and returns the placeholders.
ReportExcept ==
    /\ op = "report"
    /\ pc = "idle"
    /\ \E e \in RunExceptions :
         report' = FailureReport(e.msg)
    /\ op' = "done"
    /\ UNCHANGED <<config, summaryVars, promptVars, concurrentVars, slept, registryVars, sectionVars, clients, engineVars, faults, started, call_log,
                   sections, sec, chatVars>>

----------------------------------------------------------------------------
(* A caller of generate_section *)

\* a dict descriptor without a "prompt" key
Untemplated(title, wc) ==
    [type |-> "dict", keys |-> {"title", "word_count"},
     title |-> title, prompt |-> "", word_count |-> wc]

\* the shapes of section_data a caller passes: a full dict, a dict without
\* prompt, an empty dict, a bare title, and a value of another type
SectionInputs ==
    { Descriptor("Introduction", "Provide an introduction to the topic.", 200),
      Untemplated("Methodology", 300),
      [type |-> "dict", keys |-> {}, title |-> "", prompt |-> "", word_count |-> 0],
      [type |-> "str", keys |-> {}, title |-> "Introduction", prompt |-> "",
       word_count |-> 0],
      [type |-> "int", keys |-> {}, title |-> "", prompt |-> "", word_count |-> 0] }

\* values of previous_sections_content (None and "" are both formatted as "")
PreviousTexts == {"", "Generated text."}

\* generate_section(section_data, previous_sections_content) is called
SectionDirect ==
    /\ op = "none"
    /\ \E d \in SectionInputs : \E previous \in PreviousTexts :
         LET g == generate_section(d, previous)
         IN  /\ arg_section_data' = d
             /\ section_data_after' = AfterCall(d)
             /\ arg_previous' = previous
             /\ CASE g.outcome = "invoke" ->
                       /\ EnterInvoke("RG", g.name, g.text)
                       /\ started' = Append(started, g.name)
                       /\ op' = "section"
                       /\ UNCHANGED section_out
                  [] g.outcome = "return" ->
                       /\ section_out' = [kind |-> "return", text |-> g.text]
                       /\ op' = "section_done"
                       /\ UNCHANGED <<engineVars, started>>
                  [] OTHER ->
                       /\ section_out' = [kind |-> "raise", text |-> g.etype]
                       /\ op' = "section_done"
                       /\ UNCHANGED <<engineVars, started>>
    /\ UNCHANGED <<config, summaryVars, promptVars, concurrentVars, slept, registryVars, clients, faults, call_log, reportVars, chatVars>>

\* the retry method has returned into generate_section, which returns
SectionDone ==
    /\ op = "section"
    /\ pc \in {"returned", "raised"}
    /\ section_out' = [kind |-> "return", text |-> SectionResult]
    /\ op' = "section_done"
    /\ pc' = "idle"
    /\ UNCHANGED <<config, summaryVars, promptVars, concurrentVars, slept, registryVars, clients, engine, label, attempt, replies, carried, waits,
                   ret, exit, raised, prompt, faults, started, call_log, reportVars,
                   chatVars, arg_section_data, section_data_after, arg_previous>>

InitSection ==
    /\ InitState
    /\ api_keys \in KeySets
    /\ templates \in TemplateStores
    /\ deep_research_enabled \in BOOLEAN

NextSection ==
    \/ SectionDirect \/ SectionDone
    \/ NoClient \/ CallReturns \/ CallRaises \/ LoopExhausted

SpecSection == InitSection /\ [][NextSection]_vars

----------------------------------------------------------------------------
(* generate_report *)

InitReport ==
    /\ InitState
    /\ api_keys \in KeySets
    /\ templates \in TemplateStores
    /\ deep_research_enabled \in BOOLEAN

NextReport ==
    \/ StartReport \/ SectionCall \/ SectionReturn \/ ReportReturn \/ ReportExcept
    \/ NoClient \/ CallReturns \/ CallRaises \/ LoopExhausted

SpecReport == InitReport /\ [][NextReport]_vars

----------------------------------------------------------------------------
(* ChatManager.generate_chat_response *)

\* the constructor argument research_topic and the loaded research content
research_topic == "Effects of soil erosion"
research_content == "## Introduction\nSoil erosion reduces crop yields."

Queries == {"", "  ", "What is the capital of France?"}

ScopeRefusal ==
    "I can only answer questions related to the research topic: '" \o research_topic
    \o "'. Your question seems to be outside this scope."

\* OutOfScope that forgets to lower-case the answer
OutOfScope_case_sensitive(response) == Contains(response, "no")

\* `"no" in relevance_response.lower()`
OutOfScope(response) == Contains(Lower(response), "no")

\* the test that sends the turn to the web search
LacksInformation(response_text) ==
    \/ Contains(Lower(response_text), "not available in the research")
    \/ Contains(Lower(response_text), "don't have enough information")

\* the except clauses of generate_chat_response
ChatExcept(etype, msg) ==
    IF etype = "ValueError"
    THEN "I apologize, but there was an issue with the prompt: " \o msg
    ELSE "I apologize, but I encountered an error: " \o msg

\* a return statement of generate_chat_response
ChatReturn(value) ==
    /\ chat_ret' = value
    /\ op' = "chat_done"
    /\ stage' = "none"
    /\ pc' = "idle"

\* the call of the retry method for one prompt of the turn
ChatInvoke(call_type, p, next_stage, earlier) ==
    IF p.ok
    THEN /\ EnterInvoke("CM", call_type, p.text)
         /\ started' = Append(earlier, call_type)
         /\ stage' = next_stage
         /\ op' = "chat"
         /\ UNCHANGED chat_ret
    ELSE /\ ChatReturn(ChatExcept("ValueError", p.error))
         /\ started' = earlier
         /\ UNCHANGED <<engine, label, attempt, replies, carried, waits, ret, exit, raised,
                        prompt>>

\* generate_chat_response(user_query), up to the relevance check
ChatTurn ==
    /\ op \in {"none", "chat_done"}
    /\ turns < MaxTurns
    /\ turns' = turns + 1
    /\ \E q \in Queries :
         /\ user_query' = q
         /\ IF IsBlank(q)
            THEN /\ ChatReturn("Please ask a question.")
                 /\ started' = <<>>
                 /\ UNCHANGED <<engine, label, attempt, replies, carried, waits, ret, exit,
                                raised, prompt>>
            ELSE ChatInvoke("relevance check",
                     format_prompt("relevance_check",
                         [research_topic |-> research_topic, user_query |-> q]),
                     "relevance", <<>>)
    /\ relevance_response' = NoValue
    /\ call_log' = <<>>
    /\ UNCHANGED <<config, summaryVars, promptVars, concurrentVars, slept, registryVars, sectionVars, clients, faults, reportVars, chat_history>>

\* the relevance check has returned: refuse, or ask for the chat response
RelevanceReturned ==
    /\ op = "chat"
    /\ stage = "relevance"
    /\ pc \in {"returned", "raised"}
    /\ IF pc = "raised"
       THEN /\ ChatReturn(ChatExcept(exit, ret))
            /\ UNCHANGED <<engine, label, attempt, replies, carried, waits, ret, exit, raised,
                           prompt, started, relevance_response>>
       ELSE /\ relevance_response' = ret
            /\ IF OutOfScope(ret)
               THEN /\ ChatReturn(ScopeRefusal)
                    /\ UNCHANGED <<engine, label, attempt, replies, carried, waits, ret, exit,
                                   raised, prompt, started>>
               ELSE ChatInvoke("initial chat response",
                        format_prompt("chat_response",
                            [research_content |->
                                 IF research_content # "" THEN research_content
                                 ELSE "No specific research content loaded.",
                             user_query |-> user_query]),
                        "initial", started)
    /\ UNCHANGED <<config, summaryVars, promptVars, concurrentVars, slept, registryVars, sectionVars, clients, faults, call_log, reportVars, chat_history,
                   user_query, turns>>

\* AppendExchange that records the answer without the question
AppendExchange_answer_only(history, query, response_text) ==
    Append(history, [role |-> "assistant", content |-> response_text])

\* the two chat_history.append statements of a completed exchange
AppendExchange(history, query, response_text) ==
    Append(Append(history, [role |-> "user", content |-> query]),
           [role |-> "assistant", content |-> response_text])

\* The chat response has returned.  When it lacks information the turn calls
\* search_academic_sources, an `async def` that is not awaited: the coroutine
\* is truthy and iterating it raises TypeError, which the except clause of
\* generate_chat_response turns into an apology.  Otherwise the exchange is
\* appended to the history and the response returned.
InitialReturned ==
    /\ op = "chat"
    /\ stage = "initial"
    /\ pc \in {"returned", "raised"}
    /\ IF pc = "raised"
       THEN /\ ChatReturn(ChatExcept(exit, ret))
            /\ UNCHANGED chat_history
       ELSE IF LacksInformation(ret)
       THEN /\ ChatReturn(ChatExcept("TypeError", "'coroutine' object is not iterable"))
            /\ UNCHANGED chat_history
       ELSE IF IsBlank(ret)
       THEN /\ ChatReturn("I received an empty response. Please try rephrasing your question.")
            /\ UNCHANGED chat_history
       ELSE /\ chat_history' = AppendExchange(chat_history, user_query, ret)
            /\ ChatReturn(ret)
    /\ UNCHANGED <<config, summaryVars, promptVars, concurrentVars, slept, registryVars, sectionVars, clients, engine, label, attempt, replies, carried, waits, ret, exit,
                   raised, prompt, faults, started, call_log, reportVars, user_query,
                   relevance_response, turns>>

\* clear_chat_history(), called between turns
clear_chat_history ==
    /\ op \in {"none", "chat_done"}
    /\ chat_history # <<>>
    /\ chat_history' = <<>>
    /\ UNCHANGED <<config, summaryVars, promptVars, concurrentVars, slept, registryVars, sectionVars, clients, op, engineVars, faults,
                   started, call_log, reportVars, user_query, stage,
                   relevance_response, chat_ret, turns>>

InitChat ==
    /\ InitState
    /\ api_keys \in KeySets
    /\ templates \in TemplateStores
    /\ deep_research_enabled = FALSE

NextChat ==
    \/ ChatTurn \/ RelevanceReturned \/ InitialReturned \/ clear_chat_history
    \/ NoClient \/ CallReturns \/ CallRaises \/ LoopExhausted

SpecChat == InitChat /\ [][NextChat]_vars

----------------------------------------------------------------------------
(* ChatManager.generate_table_summary and generate_executive_summary *)

\* position of the first occurrence of p in s at or after from (0 when none)
Find(s, p, from) ==
    LET hits == {i \in from..(Len(s) - Len(p) + 1) : SubSeq(s, i, i + Len(p) - 1) = p}
    IN  IF hits = {} THEN 0 ELSE CHOOSE i \in hits : \A j \in hits : i <= j

\* re.findall(r"<table.*?>(.*?)</table>", content, re.DOTALL | re.IGNORECASE)
RECURSIVE FindTables(_)
FindTables(content) ==
    LET folded == Lower(content)
        open == Find(folded, "<table", 1)
        gt == IF open = 0 THEN 0 ELSE Find(folded, ">", open + 6)
        close == IF gt = 0 THEN 0 ELSE Find(folded, "</table>", gt + 1)
    IN  IF close = 0 THEN <<>>
        ELSE <<SubSeq(content, gt + 1, close - 1)>>
             \o FindTables(SubSeq(content, close + 8, Len(content)))

\* "\n".join(lines)
RECURSIVE JoinLines(_)
JoinLines(lines) ==
    IF lines = <<>> THEN ""
    ELSE IF Len(lines) = 1 THEN lines[1]
    ELSE lines[1] \o "\n" \o JoinLines(Tail(lines))

\* research content with one table and with two
content_one_table ==
    research_content \o "\n<table><tr><td>Yield</td><td>-12%</td></tr></table>"
content_two_tables ==
    content_one_table \o "\n<TABLE border=\"1\"><tr><td>Rainfall</td></tr></TABLE>"

\* values of the content the summaries work on
SummaryContents == {"", research_content, content_one_table, content_two_tables}

\* template stores of a summary run: the defaults, and a directory without
\* table_summary.json and executive_summary.json
SummaryStores ==
    { DefaultTemplates,
      [ research_section |-> Template_research_section,
        chat_response |-> Template_chat_response,
        relevance_check |-> Template_relevance_check,
        web_search_response |-> Template_web_search_response ] }

\* the test both summary methods apply to the engine result:
\* `summary.startswith("Error:")`
IsFailure(text) == StartsWith(text, "Error:")

\* the entry generate_table_summary records for table i
TableEntry(i, table_summary) ==
    IF table_summary # "" /\ ~ IsFailure(table_summary)
    THEN "Table " \o ToString(i) \o " Summary: " \o table_summary
    ELSE "Table " \o ToString(i) \o " Summary: Could not generate summary due to an error."

\* the entry recorded by the except clauses around the engine call
TableExcept(i, etype) ==
    IF etype = "ValueError"
    THEN "Table " \o ToString(i) \o " Summary: Could not generate summary due to a prompt error."
    ELSE "Table " \o ToString(i) \o " Summary: Could not generate summary due to an error."

\* what generate_table_summary returns after its loop
TableSummaryText(entries) ==
    IF entries = <<>> THEN "" ELSE "Table Summaries:\n" \o JoinLines(entries)

\* what generate_executive_summary returns for an engine result
ExecutiveResult(summary) ==
    IF IsFailure(summary)
    THEN "I apologize, but I encountered an error while generating the executive summary: "
         \o summary
    ELSE summary

\* a return statement of a summary method
SummaryReturn(value) ==
    /\ summary_out' = [kind |-> "return", text |-> value]
    /\ op' = "summary_done"

\* an exception leaves a summary method
SummaryRaise(etype, msg) ==
    /\ summary_out' = [kind |-> "raise", text |-> etype \o ": " \o msg]
    /\ op' = "summary_done"

\* generate_table_summary(content) or generate_executive_summary() is called:
\* the early returns, then the search for tables
SummaryCall ==
    /\ op = "none"
    /\ \E method \in {"generate_table_summary", "generate_executive_summary"} :
       \E content \in SummaryContents :
         /\ summary_call' = [method |-> method, content |-> content]
         /\ IF content = ""
            THEN /\ SummaryReturn(IF method = "generate_table_summary" THEN ""
                                  ELSE "No research content loaded to generate an executive summary.")
                 /\ UNCHANGED <<tables, table_summaries>>
            ELSE /\ tables' = FindTables(content)
                 /\ table_summaries' = <<>>
                 /\ op' = "tables"
                 /\ UNCHANGED summary_out
    /\ UNCHANGED <<config, promptVars, concurrentVars, slept, registryVars, sectionVars, clients,
                   engineVars, faults, started, call_log, reportVars, chatVars>>

\* an iteration of the loop over the tables, up to the engine call; the
\* prompt is formatted outside the try block, so its ValueError leaves the
\* method (and generate_executive_summary, which calls it outside its own)
TableCall ==
    /\ op = "tables"
    /\ pc = "idle"
    /\ Len(table_summaries) < Len(tables)
    /\ LET i == Len(table_summaries) + 1
           p == format_prompt("table_summary", [table_content |-> tables[i]])
           call_type == "table " \o ToString(i) \o " summary"
       IN  IF p.ok
           THEN /\ EnterInvoke("CM", call_type, p.text)
                /\ started' = Append(started, call_type)
                /\ UNCHANGED <<op, summary_out>>
           ELSE /\ SummaryRaise("ValueError", p.error)
                /\ UNCHANGED <<engineVars, started>>
    /\ UNCHANGED <<config, promptVars, concurrentVars, slept, registryVars, sectionVars, clients,
                   faults, call_log, reportVars, chatVars, summary_call, tables,
                   table_summaries>>

\* the engine call of a table has returned: its entry is recorded
TableReturn ==
    /\ op = "tables"
    /\ pc \in {"returned", "raised"}
    /\ LET i == Len(table_summaries) + 1
       IN  table_summaries' = Append(table_summaries,
               IF pc = "raised" THEN TableExcept(i, exit) ELSE TableEntry(i, ret))
    /\ pc' = "idle"
    /\ UNCHANGED <<config, promptVars, concurrentVars, slept, registryVars, sectionVars, clients,
                   op, engine, label, attempt, replies, carried, waits, ret, exit, raised,
                   prompt, faults, started, call_log, reportVars, chatVars, summary_call,
                   tables, summary_out>>

\* after the loop: generate_table_summary returns its text; called from
\* generate_executive_summary, the executive prompt is formatted (outside the
\* try block) and handed to the engine
TablesDone ==
    /\ op = "tables"
    /\ pc = "idle"
    /\ Len(table_summaries) = Len(tables)
    /\ LET table_summary_text == TableSummaryText(table_summaries)
           p == format_prompt("executive_summary",
                    [full_report_content |-> summary_call.content,
                     table_summary_text |->
                         IF table_summary_text # "" THEN table_summary_text
                         ELSE "No specific table insights to include.",
                     summary_detail_instruction |-> "comprehensive",
                     summary_word_count |-> "N/A",
                     deep_research_instruction |-> ""])
       IN  IF summary_call.method = "generate_table_summary"
           THEN /\ SummaryReturn(table_summary_text)
                /\ UNCHANGED <<engineVars, started>>
           ELSE IF p.ok
           THEN /\ EnterInvoke("CM", "executive summary", p.text)
                /\ started' = Append(started, "executive summary")
                /\ op' = "executive"
                /\ UNCHANGED summary_out
           ELSE /\ SummaryRaise("ValueError", p.error)
                /\ UNCHANGED <<engineVars, started>>
    /\ UNCHANGED <<config, promptVars, concurrentVars, slept, registryVars, sectionVars, clients,
                   faults, call_log, reportVars, chatVars, summary_call, tables,
                   table_summaries>>

\* the engine call for the executive summary has returned
ExecutiveReturn ==
    /\ op = "executive"
    /\ pc \in {"returned", "raised"}
    /\ IF pc = "raised"
       THEN SummaryReturn(
                IF exit = "ValueError"
                THEN "I apologize, but there was an issue with the prompt for the executive summary: " \o ret
                ELSE "I apologize, but I encountered an error while generating the executive summary: " \o ret)
       ELSE SummaryReturn(ExecutiveResult(ret))
    /\ pc' = "idle"
    /\ UNCHANGED <<config, promptVars, concurrentVars, slept, registryVars, sectionVars, clients,
                   engine, label, attempt, replies, carried, waits, ret, exit, raised,
                   prompt, faults, started, call_log, reportVars, chatVars, summary_call,
                   tables, table_summaries>>

InitSummary ==
    /\ InitState
    /\ api_keys \in KeySets
    /\ templates \in SummaryStores
    /\ deep_research_enabled = FALSE

NextSummary ==
    \/ SummaryCall \/ TableCall \/ TableReturn \/ TablesDone \/ ExecutiveReturn
    \/ NoClient \/ CallReturns \/ CallRaises \/ LoopExhausted

SpecSummary == InitSummary /\ [][NextSummary]_vars

----------------------------------------------------------------------------
(* Properties of the retry engine *)

Returned == pc = "returned"
HasClient == SplitFirst(model_name) \in clients
Calls == Len(replies)

\* the provider failures of the contract, told by the reply itself
TimeoutFlavored(r) == r.kind = "raise" /\ r.etype = "APITimeoutError"
RateLimitFlavored(r) == r = RateLimit
AuthFlavored(r) == r = BadKey
PermissionFlavored(r) == r = Forbidden
OtherFlavored(r) ==
    r \in {ServerError, ConnectionReset}
EmptyText(r) == r.kind = "text" /\ IsBlank(r.text)
GoodText(r) == r.kind = "text" /\ ~IsBlank(r.text)

TransientFailure(r) ==
    TimeoutFlavored(r) \/ RateLimitFlavored(r) \/ OtherFlavored(r) \/ EmptyText(r)

C3_SuccessStops ==
    \A k \in 1..Calls :
        GoodText(replies[k])
        => (Returned /\ ret = replies[k].text /\ Calls = k /\ Len(waits) = k - 1)

\* C4: every value invoke returns is the provider's non-blank text or a
\* string beginning with "Error", on every exit path.
C4_ErrorPrefix ==
    Returned =>
      \/ StartsWith(ret, "Error")
      \/ Calls >= 1 /\ GoodText(replies[Calls]) /\ ret = replies[Calls].text

C4_Witness ==
    /\ Returned /\ exit = "unexpected" /\ Calls = 2
    /\ replies[2] = ConnectionReset
    /\ StartsWith(ret, "Error generating ")

C7_NoClientTerminal ==
    /\ (Returned /\ ~HasClient)
         => (Calls = 0 /\ waits = <<>> /\ attempt = 0 /\ StartsWith(ret, "Error"))
    /\ Calls > 0 => HasClient

C7_Witness ==
    /\ Returned /\ exit = "no_client" /\ max_retries = 3
    /\ SplitFirst(model_name) \in api_keys
    /\ Calls = 0 /\ waits = <<>>

----------------------------------------------------------------------------
(* Properties of generate_report *)

CanonicalTitles == Titles(CanonicalSections)
ReportDone == op = "done"
ReturnedSections == ReportDone /\ report = sections
Position(title) == CHOOSE i \in 1..Len(CanonicalSections) : CanonicalTitles[i] = title

\* C8: generate_report always ends by returning a mapping whose keys are the
\* six canonical titles in insertion order, each value a text; this holds for
\* every pattern of provider failures, and when an exception is raised in the
\* run every value is an Error-prefixed placeholder.  A run that has not
\* returned stands at a statement of the try block with the keys of the
\* sections before it stored: no exception is on its way out.
C8_ReportComplete ==
    /\ ReportDone =>
         /\ Titles(report) = CanonicalTitles
         /\ \A i \in 1..Len(report) : report[i].text # NoValue
         /\ report # sections =>
              \A i \in 1..Len(report) : StartsWith(report[i].text, "Error")
    /\ op = "report" =>
         /\ pc \in {"idle", "loop", "returned"}
         /\ sec \in 1..(Len(CanonicalSections) + 1)
         /\ Titles(sections) = SubSeq(CanonicalTitles, 1, sec - 1)

C8_Witness ==
    /\ ReturnedSections
    /\ StartsWith(report[1].text, "Error")
    /\ report[2].text = "Generated text."
    /\ StartsWith(report[3].text, "Error")
    /\ Len(call_log) > 3

\* C9: an Error-prefixed section (authentication and no-client failures
\* included) neither stops nor alters the later sections: the sections are
\* attempted once each in canonical order, every provider call belongs to
\* the section being attempted, the calls of a section all precede those of
\* the next, each section's prompt depends on the configuration alone, and a
\* report that returns its sections has attempted all six.
C9_PartialFailure ==
    /\ op \in {"report", "done"} =>
         /\ Len(started) <= Len(CanonicalSections)
         /\ \A i \in 1..Len(started) : started[i] = CanonicalTitles[i]
         /\ \A i \in 1..Len(call_log) :
              /\ \E j \in 1..Len(started) : call_log[i] = started[j]
              /\ \A j \in 1..Len(call_log) :
                   i < j => Position(call_log[i]) <= Position(call_log[j])
         /\ Len(sections) = IF pc = "idle" THEN Len(started) ELSE Len(started) - 1
         /\ pc = "loop" =>
              /\ label = started[Len(started)]
              /\ prompt = generate_section(CanonicalSections[Len(started)], "").text
    /\ ReturnedSections => Len(started) = Len(CanonicalSections)

C9_Witness ==
    /\ ReturnedSections
    /\ model_name = "gemini-2.5-flash"
    /\ report[1].text
         = "Error: Invalid API key for gemini-2.5-flash. Please check your configuration."
    /\ report[6].text = "Generated text."
    /\ started = CanonicalTitles
    /\ call_log[Len(call_log)] = "Conclusion"

----------------------------------------------------------------------------
(* Properties of generate_chat_response *)

\* C10: in a turn with a non-empty query whose relevance check returned
\* "NO", the turn has returned the scope refusal and the relevance check is
\* the only provider invocation of the turn.
C10_ChatScope ==
    (op \in {"chat", "chat_done"} /\ ~IsBlank(user_query) /\ relevance_response = "NO")
        => /\ op = "chat_done"
           /\ chat_ret = ScopeRefusal
           /\ started = <<"relevance check">>
           /\ \A i \in 1..Len(call_log) : call_log[i] = "relevance check"

C10_Witness ==
    /\ op = "chat_done"
    /\ user_query = "What is the capital of France?"
    /\ relevance_response = "NO"
    /\ chat_ret = ScopeRefusal
    /\ call_log = <<"relevance check">>

\* C11: chat_history always has even length and alternates user, assistant
\* from the start; a step changes it only by clearing it or by appending,
\* after all earlier turns, the user query and then the assistant answer of
\* the exchange that has just succeeded, and every turn that returns the
\* provider's answer appends that pair.
C11_HistoryShape ==
    /\ Len(chat_history) % 2 = 0
    /\ \A i \in 1..Len(chat_history) :
         chat_history[i].role = IF i % 2 = 1 THEN "user" ELSE "assistant"

C11_HistoryStep ==
    /\ chat_history' # chat_history =>
         \/ chat_history' = <<>>
         \/ /\ Len(chat_history') = Len(chat_history) + 2
            /\ SubSeq(chat_history', 1, Len(chat_history)) = chat_history
            /\ chat_history'[Len(chat_history) + 1]
                 = [role |-> "user", content |-> user_query]
            /\ chat_history'[Len(chat_history) + 2]
                 = [role |-> "assistant", content |-> chat_ret']
            /\ chat_ret' = ret
    /\ (op = "chat" /\ stage = "initial" /\ op' = "chat_done" /\ chat_ret' = ret)
         => Len(chat_history') = Len(chat_history) + 2

C11_HistoryGrowth == []C11_HistoryShape /\ [][C11_HistoryStep]_vars

C11_Witness ==
    /\ op = "chat_done"
    /\ Len(chat_history) = 4
    /\ chat_history[3] = [role |-> "user", content |-> "What is the capital of France?"]
    /\ chat_history[4] = [role |-> "assistant", content |-> chat_ret]

----------------------------------------------------------------------------
(* Properties of the client registry *)

LastRequested == requested[Len(requested)]
FirstIndex(seq, x) == CHOOSE i \in 1..Len(seq) : seq[i] = x /\ \A j \in 1..(i - 1) : seq[j] # x

\* C12: get_client never raises; it returns None whenever the prefix before
\* the first hyphen is not gemini, gpt or claude, the family has no
\* (non-empty) credential, or the constructor raised in the call; in every
\* other case it returns a handle of the family of the model name.
C12_RegistryNeverRaises ==
    Len(requested) > 0 =>
        LET model_prefix == SplitFirst(LastRequested)
            unavailable == \/ model_prefix \notin {"gemini", "gpt", "claude"}
                           \/ model_prefix \notin api_keys
                           \/ handle.construction = "raised"
        IN  /\ handle.kind # "raise"
            /\ unavailable => handle.kind = "none"
            /\ ~unavailable => handle.kind = "handle" /\ handle.family = model_prefix

C12_Witness ==
    /\ Len(requested) = 2
    /\ requested[1] = "mistral-7b"
    /\ LastRequested = "gpt-4o"
    /\ "gpt" \in api_keys
    /\ handle.construction = "raised"
    /\ handle.kind = "none"

\* C13: a family's handle is constructed at most once; once constructed the
\* entry stays in the cache, and every get_client call for a model of that
\* family returns the handle of that one construction without running the
\* constructor.
C13_OneHandlePerFamily ==
    /\ \A i, j \in 1..Len(constructed) : constructed[i] = constructed[j] => i = j
    /\ \A i \in 1..Len(constructed) : constructed[i] \in clients
    /\ \A f \in clients : \E i \in 1..Len(constructed) : constructed[i] = f
    /\ Len(requested) > 0 =>
         LET model_prefix == SplitFirst(LastRequested)
             before == IF handle.construction = "returned"
                       THEN SubSeq(constructed, 1, Len(constructed) - 1)
                       ELSE constructed
         IN  (\E i \in 1..Len(before) : before[i] = model_prefix) =>
                 /\ handle.kind = "handle"
                 /\ handle.family = model_prefix
                 /\ handle.serial = FirstIndex(constructed, model_prefix)
                 /\ handle.construction = "none"

C13_Witness ==
    /\ requested = <<"gemini-2.5-flash", "gpt-4o", "gemini-1.5-flash">>
    /\ constructed = <<"gemini", "gpt">>
    /\ handle = Outcome("handle", "gemini", 1, "none")

----------------------------------------------------------------------------
(* Properties of generate_section *)

FixedText == "Generated text."
InSection == op \in {"section", "section_done"}
SectionInvoked == op = "section" /\ pc = "loop"
ArgHas(k) == arg_section_data.type = "dict" /\ k \in arg_section_data.keys
EveryProviderCallFixed ==
    /\ faults = 0
    /\ \A i \in 1..Len(CanonicalTitles) :
         \E j \in 1..Len(call_log) : call_log[j] = CanonicalTitles[i]

\* the sequencer half of C14: the step after the retry method has returned
\* stores its result unchanged under the section's key and starts no
\* second invoke for the section
C14_SequencerStep ==
    [][(op = "report" /\ pc = "returned")
          => /\ pc' = "idle"
             /\ sections' = Append(sections, [title |-> label, text |-> ret])]_vars

\* C14: generate_section returns the result of its one invoke unchanged, so
\* a report in which every provider call returned the fixed text holds that
\* text under each of the six keys.
C14_Verbatim ==
    (ReturnedSections /\ EveryProviderCallFixed)
        => \A i \in 1..Len(report) : report[i].text = FixedText

\* C15: for a dict descriptor that carries its own prompt, the prompt handed
\* to the retry method is built from that prompt and not from the
\* research_section template.
C15_OverrideWins ==
    (SectionInvoked /\ ArgHas("prompt"))
        => /\ Contains(prompt, arg_section_data.prompt)
           /\ prompt # format_prompt("research_section",
                          [section_name |-> arg_section_data.title,
                           topic |-> topic, keywords |-> keywords,
                           research_questions |-> research_questions,
                           word_count |-> ToString(arg_section_data.word_count),
                           deep_research_instruction |->
                               IF deep_research_enabled THEN DeepDetail ELSE "",
                           previous_sections_content |-> arg_previous]).text

\* C16: a dict descriptor with a title and no prompt is not rejected: with
\* the default templates generate_section invokes the retry method for it.
C16_TemplateFallback ==
    (InSection /\ ArgHas("title") /\ ~ArgHas("prompt") /\ templates = DefaultTemplates)
        => started = <<arg_section_data.title>>

\* the configuration faults of C17
InvalidDescriptor ==
    \/ arg_section_data.type \notin {"dict", "str"}
    \/ arg_section_data.type = "dict" /\ ~ArgHas("prompt") /\ ~ArgHas("title")
MissingTemplate == "research_section" \notin DOMAIN templates
MissingPlaceholder ==
    /\ ~MissingTemplate
    /\ ~format_prompt("research_section",
            [section_name |-> "", topic |-> "", keywords |-> "",
             research_questions |-> "", word_count |-> "",
             deep_research_instruction |-> "", previous_sections_content |-> ""]).ok

\* C17: on an invalid descriptor, a missing research_section template or a
\* missing placeholder, generate_section has returned an "Error:" string
\* and no provider call or wait was made.
C17_FailFast ==
    (InSection /\ (InvalidDescriptor \/ MissingTemplate \/ MissingPlaceholder))
        => /\ op = "section_done"
           /\ section_out.kind = "return"
           /\ StartsWith(section_out.text, "Error:")
           /\ call_log = <<>>
           /\ waits = <<>>

\* C18: in a report run the prompt of a section contains the text of every
\* section generated before it.
C18_ContextThreading ==
    (op = "report" /\ pc = "loop")
        => \A i \in 1..Len(sections) : Contains(prompt, sections[i].text)

\* C19: for every descriptor shape and both values of the deep-research
\* flag, generate_section ends by returning a string; it never raises.
C19_AlwaysText ==
    op = "section_done"
        => section_out.kind = "return" /\ section_out.text # NoValue

\* C20: the word count formatted into the prompt is the descriptor's
\* word_count times 1.5 (truncated) with the deep-research instruction
\* appended when the flag is set, and the descriptor's word_count with an
\* empty instruction when it is not.
C20_DeepTarget ==
    (SectionInvoked /\ ArgHas("word_count"))
        => IF deep_research_enabled
           THEN /\ Contains(prompt, "approximately "
                       \o ToString((arg_section_data.word_count * 3) \div 2) \o " words")
                /\ Contains(prompt, DeepDetail)
           ELSE /\ Contains(prompt, "approximately "
                       \o ToString(arg_section_data.word_count) \o " words")
                /\ ~Contains(prompt, DeepDetail)

----------------------------------------------------------------------------
(* Properties of the prompt manager *)

LastFormat == format_log[Len(format_log)]
NotFoundError(name) == "Prompt template '" \o name \o "' not found."
MissingError(name, key) ==
    "Missing data for prompt placeholder: '" \o key \o "'. Check template '"
    \o name \o "'."

\* C21: a format_prompt call for a name that is not a loaded template fails
\* with the not-found error for that name and returns no text.
C21_TemplateNotFound ==
    \A i \in 1..Len(format_log) :
        format_log[i].name \notin DOMAIN templates
            => /\ ~format_log[i].out.ok
               /\ format_log[i].out.text = ""
               /\ format_log[i].out.error = NotFoundError(format_log[i].name)

C21_Witness ==
    /\ Len(format_log) = 2
    /\ format_log[1].out.ok
    /\ LastFormat.name = "literature_review"
    /\ LastFormat.out.error = "Prompt template 'literature_review' not found."

\* C22: a format_prompt call on a loaded template with exactly one of its
\* placeholders omitted fails with the missing-placeholder error naming
\* that key; a call with every placeholder supplied returns a text in
\* which no field is left.
C22_MissingPlaceholder ==
    \A i \in 1..Len(format_log) :
        LET c == format_log[i]
        IN  c.name \in DOMAIN templates =>
                IF c.omitted # NoValue
                THEN /\ ~c.out.ok
                     /\ c.out.text = ""
                     /\ c.out.error = MissingError(c.name, c.omitted)
                ELSE /\ c.out.ok
                     /\ IndexOf(c.out.text, "{") = 0

C22_Witness ==
    /\ Len(format_log) = 2
    /\ format_log[1].name = "research_section"
    /\ format_log[1].omitted = NoValue
    /\ format_log[1].out.ok
    /\ LastFormat.name = "research_section"
    /\ LastFormat.omitted = "keywords"
    /\ LastFormat.out.error
         = "Missing data for prompt placeholder: 'keywords'. Check template 'research_section'."

\* C23: two format_prompt calls with the same template name and the same
\* variables have the same outcome, and no call changes the template store.
C23_SameInputsSameOutput ==
    \A i, j \in 1..Len(format_log) :
        (format_log[i].name = format_log[j].name
            /\ format_log[i].omitted = format_log[j].omitted)
        => format_log[i].out = format_log[j].out

----------------------------------------------------------------------------
(* Properties of a chat turn *)

InsufficientInformation(text) ==
    \/ Contains(Lower(text), "not available in the research")
    \/ Contains(Lower(text), "don't have enough information")

\* C24: a turn whose chat response contains an insufficient-information
\* phrase issues one web_search_response invoke after the chat response
\* invoke, and the answer it returns carries the external-source disclaimer.
C24_WebFallback ==
    (op = "chat_done" /\ Len(started) >= 2 /\ InsufficientInformation(ret))
        => /\ started = <<"relevance check", "initial chat response",
                          "web search chat response">>
           /\ Contains(Lower(chat_ret), "external sources")

----------------------------------------------------------------------------
(* Properties of the backoff and of authorization failures *)

SaysRateLimit(r) ==
    /\ r.kind = "raise"
    /\ r.etype = "APIError"
    /\ Contains(Lower(r.msg), "rate") \/ Contains(Lower(r.msg), "quota")

HasAuthorizationMarker(r) ==
    /\ r.kind = "raise"
    /\ \E marker \in {"api key", "authentication", "permission", "forbidden"} :
         Contains(Lower(r.msg), marker)

C26_AuthorizationNeverRetried ==
    (Calls >= 1 /\ HasAuthorizationMarker(replies[1]))
        => /\ Returned
           /\ Calls = 1
           /\ waits = <<>>
           /\ StartsWith(ret, "Error")


\* the entry the mapping m holds under a title ("" when it has none)
EntryOf(m, title) ==
    IF \E i \in 1..Len(m) : m[i].title = title
    THEN m[CHOOSE i \in 1..Len(m) : m[i].title = title].text
    ELSE ""

\* C27: report entries are append-only within a run: once generate_report has
\* obtained the text of a section, the mapping it finally returns holds
\* exactly that text under the section's title, whatever fails or raises
\* while a later section is generated.
C27_AppendOnly ==
    ReportDone =>
        \A i \in 1..Len(sections) :
            EntryOf(report, sections[i].title) = sections[i].text

\* while the run lasts the mapping under construction only grows, one entry
\* at a time, and `return sections` hands it over unchanged
C27_GrowsByAppend ==
    [][(op = "report" /\ op' \in {"report", "done"}) =>
          /\ \/ sections' = sections
             \/ /\ Len(sections') = Len(sections) + 1
                /\ SubSeq(sections', 1, Len(sections)) = sections
          /\ (op' = "done" /\ report' # FailureReport("")) => report' = sections]_vars


\* the waits one invoke can make
WaitBudget == IF max_retries > 0 THEN max_retries - 1 ELSE 0

\* provider calls and waits of the current invoke and of the whole run stay
\* within the budget of the invokes started so far, at most six of them
C28_WithinBudget ==
    (op \in {"report", "done"}) =>
        /\ attempt <= max_retries
        /\ Len(replies) <= max_retries
        /\ Len(waits) <= WaitBudget
        /\ Len(started) <= 6
        /\ Len(call_log) <= Len(started) * max_retries
        /\ slept <= Len(started) * WaitBudget
        /\ Len(call_log) <= 6 * max_retries
        /\ slept <= 6 * WaitBudget

\* what is left of a run: sections still to generate, then the position in
\* the current section (before the invoke, attempts left in it, after it)
C28_Rank ==
    LET K == max_retries + 3
        position == CASE pc = "idle" -> max_retries + 2
                      [] pc = "loop" -> max_retries + 1 - attempt
                      [] OTHER -> 0
    IN  CASE op = "none" -> 7 * K + 1
          [] op = "report" -> (Len(CanonicalSections) + 1 - sec) * K + position + 1
          [] OTHER -> 0

\* every invoke starts with attempt 0 and no waits behind it, and every step
\* of a run brings it nearer to its end
C28_Step ==
    /\ (pc # "loop" /\ pc' = "loop") =>
          attempt' = 0 /\ waits' = <<>> /\ replies' = <<>>
    /\ C28_Rank' < C28_Rank
    /\ C28_Rank' >= 0

\* C28: fresh retry budget per logical call: the attempt counter starts at 0
\* for every invoke, whatever happened in earlier invokes, so generate_report
\* always ends, after at most 6*max_retries provider calls and at most
\* 6*(max_retries-1) backoff waits (none when max_retries is 0).
C28_FreshBudget == []C28_WithinBudget /\ [][C28_Step]_vars

\* a run in which the first section used its second attempt and the second
\* section, after a failure of its own, was again granted a second attempt
C28_Witness ==
    /\ ReportDone
    /\ max_retries = 2
    /\ Len(call_log) >= 4
    /\ call_log[1] = "Introduction" /\ call_log[2] = "Introduction"
    /\ call_log[3] = "Literature Review" /\ call_log[4] = "Literature Review"
    /\ slept = 2
    /\ report = sections
    /\ ~ StartsWith(report[2].text, "Error")


\* the logical invokes of a chat turn, in the order of the code
TurnOrder == <<"relevance check", "initial chat response", "web search chat response">>

\* the place of a call type in the turn
Place(l) == CHOOSE i \in 1..Len(TurnOrder) : TurnOrder[i] = l

\* a query that is empty or made of white space only
EmptyQuery(q) == \A i \in 1..Len(q) : SubSeq(q, i, i) \in {" ", "\t", "\n"}

InChat == op \in {"chat", "chat_done"}

\* the invokes of the turn so far are an initial part of the fixed order, the
\* provider calls follow that order with at most max_retries calls each, and
\* a blank query is answered without any call
C29_Protocol ==
    InChat =>
        /\ Len(started) <= Len(TurnOrder)
        /\ started = SubSeq(TurnOrder, 1, Len(started))
        /\ \A i \in 1..Len(call_log) :
              \E k \in 1..Len(started) : started[k] = call_log[i]
        /\ \A i, j \in 1..Len(call_log) :
              i < j => Place(call_log[i]) <= Place(call_log[j])
        /\ \A k \in 1..Len(started) :
              Cardinality({i \in 1..Len(call_log) : call_log[i] = started[k]}) <= max_retries
        /\ Len(call_log) <= 3 * max_retries
        /\ EmptyQuery(user_query) =>
              /\ op = "chat_done"
              /\ chat_ret = "Please ask a question."
              /\ call_log = <<>>
              /\ started = <<>>

\* what is left of a turn: invokes that may still start, then the position in
\* the current one
C29_Rank ==
    LET K == max_retries + 3
        position == CASE pc = "loop" -> max_retries + 1 - attempt
                      [] OTHER -> 0
    IN  IF op = "chat"
        THEN (Len(TurnOrder) + 1 - Len(started)) * K + position + 1
        ELSE 0

\* inside a turn an invoke is only ever added at the end of those started,
\* and every step brings the turn nearer to its return
C29_Step ==
    op = "chat" =>
        /\ \/ started' = started
           \/ /\ Len(started') = Len(started) + 1
              /\ SubSeq(started', 1, Len(started)) = started
        /\ C29_Rank' < C29_Rank
        /\ C29_Rank' >= 0

\* C29: chat turn protocol: a turn with a non-empty query issues its logical
\* invokes in the fixed order relevance check, chat response, then optionally
\* web search response, each at most once, so it ends after at most
\* 3*max_retries provider calls; an empty or whitespace-only query returns
\* "Please ask a question." with zero provider calls.
C29_TurnProtocol == []C29_Protocol /\ [][C29_Step]_vars

\* a whitespace-only query answered without a call, after a turn that made
\* both of its invokes and recorded the exchange
C29_Witness ==
    /\ op = "chat_done"
    /\ turns = 2
    /\ user_query = "  "
    /\ chat_ret = "Please ask a question."
    /\ call_log = <<>>
    /\ Len(chat_history) = 2

\* a turn that used every attempt of both of its invokes
C29_FullBudget ==
    /\ op = "chat_done"
    /\ max_retries = 1
    /\ call_log = <<"relevance check", "initial chat response">>
    /\ StartsWith(chat_ret, "Error")


\* the family a request asks for
FamilyOf(t) == SplitFirst(threads[t].name)

\* a request that is between its cache miss and its return for family f
Constructing(t, f) == threads[t].pc \in {"init", "store"} /\ FamilyOf(t) = f

\* a request whose call has returned
Finished(t) == threads[t].pc = "idle" /\ threads[t].name # ""

\* the cache holds at most one handle per family, one that was constructed
\* for it; no call raises; and a call for a family with a credential whose
\* own construction did not fail returns a handle of that family
C30_Outcome ==
    /\ \A f \in {"gemini", "gpt", "claude"} :
          stored[f] # 0 =>
              /\ stored[f] \in 1..Len(constructed)
              /\ constructed[stored[f]] = f
              /\ f \in clients
    /\ \A t \in Threads :
          /\ threads[t].result >= 0
          /\ ( /\ Finished(t)
               /\ FamilyOf(t) \in api_keys \cap {"gemini", "gpt", "claude"}
               /\ threads[t].construction # "raised" )
             => /\ threads[t].result \in 1..Len(constructed)
                /\ constructed[threads[t].result] = FamilyOf(t)

\* an entry is never removed; the request that stores last decides the entry;
\* once no request is constructing for a family its entry stays as it is;
\* and every return hands out the entry the cache holds at that moment
C30_Step ==
    /\ \A f \in {"gemini", "gpt", "claude"} :
          /\ stored[f] # 0 => stored'[f] # 0
          /\ (stored[f] # 0 /\ ~ \E t \in Threads : Constructing(t, f))
                => stored'[f] = stored[f]
    /\ \A t \in Threads :
          /\ (threads[t].pc = "store" /\ threads'[t].pc # "store")
                => stored'[FamilyOf(t)] = threads[t].mine
          /\ (threads[t].pc = "return" /\ threads'[t].pc = "idle"
                /\ FamilyOf(t) \in {"gemini", "gpt", "claude"})
                => threads'[t].result = stored[FamilyOf(t)]

\* C30: concurrent first access to the registry: when two requests call
\* get_client at the same time for the same uncached family that has a
\* credential, construction may run twice but the last write wins: after both
\* calls the cache maps the family to exactly one handle, neither call
\* returns none or raises, and every later get_client returns the cached
\* handle.
C30_LastWriteWins == []C30_Outcome /\ [][C30_Step]_vars

\* both requests constructed a gpt handle, the second construction is the one
\* in the cache, and a later call of the first request was served from it
C30_Witness ==
    /\ constructed = <<"gpt", "gpt">>
    /\ stored["gpt"] = 2
    /\ Finished(1) /\ Finished(2)
    /\ threads[2].calls = 1 /\ threads[2].construction = "returned"
    /\ threads[2].result = 2
    /\ threads[1].calls = 2 /\ threads[1].construction = "none"
    /\ FamilyOf(1) = "gpt" /\ threads[1].result = 2

\* the first request returned its own handle, which the second request then
\* replaced in the cache
C30_Orphaned ==
    /\ Finished(1) /\ Finished(2)
    /\ threads[1].calls = 1 /\ threads[2].calls = 1
    /\ threads[1].mine = 1 /\ threads[1].result = 1
    /\ threads[2].mine = 2 /\ threads[2].result = 2
    /\ stored["gpt"] = 2


\* C31: provider families are interchangeable: for each of gemini, gpt and
\* claude with an available client, when the provider's first response carries
\* non-empty text, invoke returns exactly that text after exactly one provider
\* call, in the report engine and in the chat engine alike.
C31_FamiliesInterchangeable ==
    \A family \in {"gemini", "gpt", "claude"} : \A e \in {"RG", "CM"} :
        ( /\ SplitFirst(model_name) = family
          /\ engine = e
          /\ family \in clients
          /\ Calls >= 1
          /\ GoodText(replies[1]) )
        => (Returned /\ Calls = 1 /\ waits = <<>> /\ ret = replies[1].text)

\* the same statement for the gemini family alone
C31_GeminiOnly ==
    \A e \in {"RG", "CM"} :
        ( /\ SplitFirst(model_name) = "gemini"
          /\ engine = e
          /\ "gemini" \in clients
          /\ Calls >= 1
          /\ GoodText(replies[1]) )
        => (Returned /\ Calls = 1 /\ waits = <<>> /\ ret = replies[1].text)


NotSystem(m) == m.role # "system"

\* what a list of messages says, in order, leaving out the system prompt
Said(msgs) ==
    LET conversation == SelectSeq(msgs, NotSystem)
    IN  [i \in 1..Len(conversation) |-> conversation[i].content]

\* the contents of the turns in chat_history, in order
Remembered == [i \in 1..Len(chat_history) |-> chat_history[i].content]

\* inside a chat turn the latest provider call carried every turn of
\* chat_history, in order, and then the prompt of the invoke
C32_CarriesHistory ==
    (op = "chat" /\ engine = "CM" /\ Calls >= 1) =>
        /\ Said(carried) = Remembered \o <<prompt>>
        /\ chat_history = <<>> => Said(carried) = <<prompt>>

\* every provider call of the chat engine is handed the history as it is at
\* that moment, and outside a turn the history changes only by being emptied
C32_Step ==
    /\ (op = "chat" /\ engine = "CM" /\ Len(call_log') = Len(call_log) + 1) =>
          /\ Said(carried') = Remembered \o <<prompt>>
          /\ chat_history' = chat_history
    /\ (op # "chat" /\ op' # "chat" /\ chat_history' # chat_history) =>
          chat_history' = <<>>

\* C32: history is what the provider sees: every provider call of a chat turn
\* carries all turns currently in chat_history, in order, before the current
\* prompt; after clear_chat_history the history is empty and the next provider
\* call carries only the current prompt.
C32_HistoryIsSent == []C32_CarriesHistory /\ [][C32_Step]_vars

\* the relevance check of a second turn, sent after the question and the
\* answer of the first
C32_Witness ==
    /\ op = "chat" /\ turns = 2 /\ Calls = 1
    /\ label = "relevance check"
    /\ Len(chat_history) = 2
    /\ Len(carried) = 3
    /\ carried[1] = [role |-> "user", content |-> "What is the capital of France?"]
    /\ carried[2].role = "model" /\ carried[2].content = chat_history[2].content
    /\ carried[3] = [role |-> "user", content |-> prompt]


\* a turn ends: generate_chat_response returns
TurnEnds == op' = "chat_done" /\ (op = "chat" \/ turns' = turns + 1)

\* a turn that ends changes the history only when the engine returned a
\* provider answer, and that answer is what the turn returns
C33_Step ==
    TurnEnds =>
        /\ chat_history' # chat_history =>
              /\ op = "chat" /\ stage = "initial"
              /\ exit = "success"
              /\ ~ StartsWith(chat_ret', "Error")
        /\ ( \/ StartsWith(chat_ret', "Error")
             \/ StartsWith(chat_ret', "I apologize")
             \/ chat_ret' = ScopeRefusal
             \/ chat_ret' = "Please ask a question." )
           => chat_history' = chat_history

C33_OtherFailures ==
    [][( /\ TurnEnds
         /\ \/ StartsWith(chat_ret', "I apologize")
            \/ chat_ret' = ScopeRefusal
            \/ chat_ret' = "Please ask a question."
            \/ chat_ret' = "I received an empty response. Please try rephrasing your question." )
         => chat_history' = chat_history]_vars


\* a failed turn whose Error string was recorded as the assistant's answer
C33_ErrorRemembered ==
    /\ op = "chat_done" /\ max_retries = 1
    /\ Len(chat_history) = 2
    /\ StartsWith(chat_history[2].content,
                  "Error: API rate limit exceeded for initial chat response")
    /\ chat_ret = chat_history[2].content

\* the relevance check of the turn has returned an Error-prefixed string
RelevanceFailed ==
    /\ op \in {"chat", "chat_done"}
    /\ relevance_response # NoValue
    /\ StartsWith(relevance_response, "Error")

C34_AnsweredAnyway ==
    /\ RelevanceFailed
    /\ op = "chat_done"
    /\ started = <<"relevance check", "initial chat response">>
    /\ chat_ret = "Soil erosion lowers crop yields."

\* s without the white space at its two ends
RECURSIVE Trimmed(_)
Trimmed(s) ==
    IF s = "" THEN s
    ELSE IF SubSeq(s, 1, 1) \in {" ", "\t", "\n"} THEN Trimmed(SubSeq(s, 2, Len(s)))
    ELSE IF SubSeq(s, Len(s), Len(s)) \in {" ", "\t", "\n"}
    THEN Trimmed(SubSeq(s, 1, Len(s) - 1))
    ELSE s

\* C35: scope refusal only on a NO answer: generate_chat_response returns the
\* scope-refusal message only if the relevance check succeeded and its
\* answer, trimmed and case-folded, is NO; a YES answer, any other successful
\* answer and an Error-prefixed relevance result never produce the refusal.
C35_RefusalOnlyOnNo ==
    (op = "chat_done" /\ chat_ret = ScopeRefusal) =>
        /\ relevance_response # NoValue
        /\ ~ StartsWith(relevance_response, "Error")
        /\ Lower(Trimmed(relevance_response)) = "no"

\* the refusal is never returned without a relevance result that has the
\* letters "no" in it, and a plain YES never leads to it
C35_RefusalNeedsNo ==
    (op = "chat_done" /\ chat_ret = ScopeRefusal) =>
        /\ relevance_response # NoValue
        /\ Contains(Lower(relevance_response), "no")
        /\ relevance_response # "YES"


\* the engine call that has just returned ended in one of its error strings
EngineFailed == pc = "returned" /\ exit # "success" /\ StartsWith(ret, "Error")

\* what a consumer of the engine does with a failed call: the executive
\* summary becomes an apology that is not the error string itself, and the
\* table is recorded as failed
C36_Step ==
    /\ (op = "executive" /\ EngineFailed /\ op' = "summary_done") =>
          /\ StartsWith(summary_out'.text, "I apologize")
          /\ summary_out'.text # ret
    /\ (op = "tables" /\ EngineFailed /\ Len(table_summaries') = Len(table_summaries) + 1) =>
          table_summaries'[Len(table_summaries')] =
              "Table " \o ToString(Len(table_summaries')) \o
              " Summary: Could not generate summary due to an error."

C36_ColonFailuresRecognised ==
    [][(StartsWith(ret, "Error:")) => C36_Step]_vars

\* an engine error string returned as the executive summary, after another
\* one was embedded as the summary of a table
C36_PassedOff ==
    /\ op = "summary_done"
    /\ summary_call.method = "generate_executive_summary"
    /\ Len(tables) = 1 /\ Len(table_summaries) = 1
    /\ StartsWith(table_summaries[1], "Table 1 Summary: Error generating table 1 summary")
    /\ summary_out.kind = "return"
    /\ StartsWith(summary_out.text, "Error generating executive summary with")


\* the turn has started its web search invoke
WebInvokeStarted ==
    /\ op \in {"chat", "chat_done"}
    /\ Len(started) = 3
    /\ started[3] = "web search chat response"

\* C37: web fallback keeps the failure signal: when the web_search_response
\* invoke fails, the text returned by generate_chat_response still begins
\* with "Error" (the external-source disclaimer is never put in front of an
\* engine error string).
C37_KeepsFailureSignal ==
    (WebInvokeStarted /\ op = "chat_done" /\ exit # "success") =>
        StartsWith(chat_ret, "Error")

\* no turn ever reaches the web search invoke
C37_NoWebInvoke == ~ WebInvokeStarted


\* what the run of the current invoke came to
ThisRun ==
    [calls |-> Calls, waits |-> waits, exit |-> exit,
     text |-> IF exit = "success" THEN ret ELSE ""]

DescriptorCall ==
    /\ op \in {"section", "section_done"}
    /\ arg_section_data.type = "dict"

\* C39: generate_section does not modify its descriptor: for every structured
\* descriptor and both values of the deep-research flag, the descriptor
\* (title, prompt, word_count) is unchanged after the call, so calling
\* generate_section twice with the same descriptor object formats the same
\* prompt both times.
C39_DescriptorUnchanged ==
    DescriptorCall =>
        /\ section_data_after = arg_section_data
        /\ generate_section(section_data_after, arg_previous)
               = generate_section(arg_section_data, arg_previous)

\* without deep research the descriptor is left as it was
C39_UnchangedWithoutDeep ==
    (DescriptorCall /\ ~deep_research_enabled) => section_data_after = arg_section_data

\* only the prompt of the descriptor is ever changed, and a second call on the
\* changed descriptor formats the same prompt as the first
C39_SamePromptTwice ==
    DescriptorCall =>
        /\ section_data_after.title = arg_section_data.title
        /\ section_data_after.word_count = arg_section_data.word_count
        /\ section_data_after.keys = arg_section_data.keys
        /\ generate_section(section_data_after, arg_previous).text
               = generate_section(arg_section_data, arg_previous).text


\* the cache holds entries only for supported families that have a credential
C40_CacheWithinCredentials ==
    /\ clients \subseteq {"gemini", "gpt", "claude"}
    /\ clients \subseteq api_keys
    /\ \A i \in 1..Len(constructed) : constructed[i] \in clients

\* a get_client call: one that returns none leaves the cache as it was; a
\* family that is not cached and has a credential is initialised anew by the
\* call; and the call touches and returns no other family's entry
C40_Step ==
    Len(requested') = Len(requested) + 1 =>
        LET model_prefix == SplitFirst(requested'[Len(requested')])
        IN  /\ handle'.kind = "none" => clients' = clients /\ constructed' = constructed
            /\ ( /\ model_prefix \notin clients
                 /\ model_prefix \in api_keys \cap {"gemini", "gpt", "claude"} )
               => handle'.construction # "none"
            /\ \A f \in {"gemini", "gpt", "claude", "mistral", "llama", ""} \ {model_prefix} :
                  /\ f \in clients' <=> f \in clients
                  /\ LastIndex(constructed', f) = LastIndex(constructed, f)
            /\ handle'.kind = "handle" => handle'.family = model_prefix

\* C40: registry cache invariant: in every reachable state the cache holds an
\* entry for a family only if that family is one of gemini, gpt, claude and a
\* non-empty credential exists for it; a get_client call that returns none
\* leaves the cache unchanged (no negative entry is stored, so each later call
\* for that family attempts initialisation again), and a get_client call for
\* one family never adds, changes or returns an entry of another family.
C40_CacheInvariant == []C40_CacheWithinCredentials /\ [][C40_Step]_vars

\* after a call for an unsupported family and a gpt call whose constructor
\* raised, both of which returned none, a third call constructs the gpt
\* handle while the gemini entry cached in between is still there
C40_Witness ==
    /\ Len(requested) = 3
    /\ SplitFirst(requested[1]) = "gpt"
    /\ SplitFirst(requested[2]) = "gemini"
    /\ SplitFirst(requested[3]) = "gpt"
    /\ constructed = <<"gemini", "gpt">>
    /\ clients = {"gemini", "gpt"}
    /\ handle.kind = "handle" /\ handle.family = "gpt" /\ handle.construction = "returned"

====
